---- MODULE Spec2Model ----
(***************************************************************************)
(* Analysis orchestration core of the GitHub repository analyzer:          *)
(*   - POST /api/analyze        (src/src/app/api/analyze/route.ts)          *)
(*   - GET  /api/analyze-route  (src/src/app/api/analyze-route/route.ts)    *)
(*   - withRateLimitRetry / parseGroq429WaitMs (same file)                  *)
(*   - analyzeSpecificRoute decoder (src/src/lib/llm.ts)                    *)
(*   - the two Mongo collections RepositoryAnalysis and RouteCache          *)
(*                                                                         *)
(* Strings are modelled as sequences of tokens; the empty string is <<>>.  *)
(* One request is served at a time; the stores persist across requests.    *)
(* Store calls (connectDB, findOne, findOneAndUpdate) are taken to succeed. *)
(***************************************************************************)
EXTENDS Integers, Sequences, FiniteSets, TLC

\* ------------------------------------------------------------------------
\* Bounds of the model
\* ------------------------------------------------------------------------
\* number of `new Date()` stamps (= successful store writes) explored
MaxClock == 3
\* largest start line of a source-reference marker
MaxStart == 3
\* how many ".git" suffixes a repository segment of an input URL may carry
MaxGits == 1
\* number of connection attempts (mongoose.connect calls) explored
MaxAttempts == 3

\* ------------------------------------------------------------------------
\* Input universes
\* ------------------------------------------------------------------------
RepoNames == {"r"}
Routes == {"/a", "/b"}

Seg(n, g) == [name |-> n, gits |-> g]
Url(h, parts, slash) == [host |-> h, parts |-> parts, slash |-> slash]

\* URL strings that name a repository on github.com: the repository segment
\* may end in ".git" (up to MaxGits times) and the URL in a slash
GitHubUrls ==
    {Url("github.com", <<Seg("o", 0), Seg(n, g)>>, sl) :
        n \in RepoNames, g \in 0..MaxGits, sl \in BOOLEAN}
\* URL strings parseGitHubUrl rejects: another host, a path of one segment
BadUrls ==
    {Url("gitlab.com", <<Seg("o", 0), Seg("r", 0)>>, FALSE),
     Url("github.com", <<Seg("o", 0)>>, FALSE)}
Urls == GitHubUrls \cup BadUrls

\* the empty / missing string
NoUrl == [host |-> "", parts |-> <<>>, slash |-> FALSE]

\* ------------------------------------------------------------------------
\* src/lib/utils.ts parseGitHubUrl: <<>> for null, else <<[owner, repo]>>.
\* replace(/\.git$/, "") strips one trailing ".git" of the second segment.
\* ------------------------------------------------------------------------
\* pathname.split("/").filter(Boolean): the non-empty segments of the path
pathParts(url) == SelectSeq(url.parts, LAMBDA seg : seg # Seg("", 0))

parseGitHubUrl(url) ==
    LET parts == pathParts(url)
    IN IF url.host # "github.com" THEN <<>>
       ELSE IF Len(parts) < 2 THEN <<>>
       ELSE <<[owner |-> parts[1],
               repo |-> [name |-> parts[2].name,
                         gits |-> IF parts[2].gits > 0
                                  THEN parts[2].gits - 1 ELSE 0]]>>

\* `https://github.com/${owner}/${repo}`
normalizedUrl(owner, repo) ==
    [host |-> "github.com", parts |-> <<owner, repo>>, slash |-> FALSE]

\* ------------------------------------------------------------------------
\* Document stores: a collection is a sequence of documents.
\* ------------------------------------------------------------------------
\* a document matches a filter when it has every field of the filter
Matches(doc, filter) == \A f \in DOMAIN filter : f \in DOMAIN doc /\ doc[f] = filter[f]

Matching(coll, filter) == {i \in 1..Len(coll) : Matches(coll[i], filter)}

\* Model.findOne(filter).lean(): <<>> for null, else <<first matching doc>>
findOne(coll, filter) ==
    LET m == Matching(coll, filter)
    IN IF m = {} THEN <<>>
       ELSE <<coll[CHOOSE i \in m : \A j \in m : i <= j]>>

\* the update applied to a document: listed fields are set, others kept
SetFields(doc, update) ==
    [f \in (DOMAIN doc) \cup (DOMAIN update) |->
        IF f \in DOMAIN update THEN update[f] ELSE doc[f]]

\* a write that never looks for an existing document (mutation of the upsert)
findOneAndUpdate_alwaysInsert(coll, filter, update) ==
    Append(coll, SetFields(filter, update))

\* Model.findOneAndUpdate(filter, update, {upsert: true, new: true}):
\* the first matching document gets the update's fields; with no match one
\* document is inserted.  Update validators are off (runValidators unset),
\* so `required: true` of the schema is not enforced on this path.
findOneAndUpdate(coll, filter, update) ==
    LET m == Matching(coll, filter)
    IN IF m = {} THEN Append(coll, SetFields(filter, update))
       ELSE LET k == CHOOSE i \in m : \A j \in m : i <= j
            IN [coll EXCEPT ![k] = SetFields(coll[k], update)]

\* ------------------------------------------------------------------------
\* Errors thrown by an LLM call (groq-sdk).  `status` is the HTTP status of
\* the provider's answer, `has429` says whether the error's message contains
\* the characters "429" (message.includes("429")), `hint` is what follows
\* "try again in" in the message: a sequence of number+unit tokens, <<>>
\* when the phrase is missing.  A seconds token carries its decimal value in
\* milliseconds ("7.66s" is Tok(7660, "s")).
\* ------------------------------------------------------------------------
Tok(n, u) == [n |-> n, u |-> u]

SecVals == {500, 7660, 12000, 12001, 45000}

Hints ==
    {<<>>} \cup
    {<<Tok(2, "h")>>, <<Tok(1, "h"), Tok(30, "m")>>} \cup
    {<<Tok(m, "m"), Tok(s, "s")>> : m \in 0..1, s \in SecVals} \cup
    {<<Tok(2, "m")>>, <<Tok(430, "ms")>>} \cup
    {<<Tok(s, "s")>> : s \in SecVals}

Err(st, h429, hint) == [status |-> st, has429 |-> h429, hint |-> hint]

\* the provider's throttling answers: the SDK's message starts with the status
ThrottleErrors == {Err(429, TRUE, h) : h \in Hints}
\* every other failure (bad request, server error); the SDK's message is the
\* status followed by the provider's answer, whose token counts and request
\* ids may or may not contain the characters "429"
OtherErrors == {Err(st, b, <<>>) : st \in {400, 500}, b \in BOOLEAN}
LLMErrors == ThrottleErrors \cup OtherErrors
\* failures offered to the second attempt
RetryErrors == {Err(429, TRUE, <<>>), Err(429, TRUE, <<Tok(2, "h")>>)} \cup OtherErrors

\* ------------------------------------------------------------------------
\* analyze-route/route.ts parseGroq429WaitMs.
\* Result: [threw |-> TRUE] for `throw new RateLimitExhaustedError`, else the
\* wait in ms.  The three regular expressions look at what follows
\* "try again in": \d+h ; (\d+)m([\d.]+)s ; ([\d.]+)s .
\* ------------------------------------------------------------------------
hourMatch(hint) == Len(hint) >= 1 /\ hint[1].u = "h"
minMatch(hint) == Len(hint) >= 2 /\ hint[1].u = "m" /\ hint[2].u = "s"
secMatch(hint) == Len(hint) >= 1 /\ hint[1].u = "s"

RateLimitThreshold == 12000
RetryBuffer == 400
DefaultWait == 3000

\* a classifier that applies the 12 s threshold to second-scale hints as
\* well (mutation)
parseGroq429WaitMs_thresholdOnSeconds(hint) ==
    IF hourMatch(hint) THEN [threw |-> TRUE, ms |-> 0]
    ELSE IF minMatch(hint) THEN
        LET ms == (hint[1].n * 60) * 1000 + hint[2].n
        IN IF ms > RateLimitThreshold THEN [threw |-> TRUE, ms |-> 0]
           ELSE [threw |-> FALSE, ms |-> ms + RetryBuffer]
    ELSE IF secMatch(hint) THEN
        IF hint[1].n > RateLimitThreshold THEN [threw |-> TRUE, ms |-> 0]
        ELSE [threw |-> FALSE, ms |-> hint[1].n + RetryBuffer]
    ELSE [threw |-> FALSE, ms |-> DefaultWait]

parseGroq429WaitMs(hint) ==
    IF hourMatch(hint) THEN [threw |-> TRUE, ms |-> 0]
    ELSE IF minMatch(hint) THEN
        LET ms == (hint[1].n * 60) * 1000 + hint[2].n
        IN IF ms > RateLimitThreshold THEN [threw |-> TRUE, ms |-> 0]
           ELSE [threw |-> FALSE, ms |-> ms + RetryBuffer]
    ELSE IF secMatch(hint) THEN [threw |-> FALSE, ms |-> hint[1].n + RetryBuffer]
    ELSE [threw |-> FALSE, ms |-> DefaultWait]

\* ------------------------------------------------------------------------
\* lib/llm.ts analyzeSpecificRoute: decoding of the model's text.
\* Tokens of a text: "FH" = "### FLOW_VISUALIZATION", "TH" =
\* "### EXECUTION_TRACE", "NL" = "\n", "MM" = "```mermaid", "FE" = "```",
\* "G" = diagram lines, "T" = trace prose, "MK_p" = a <<<FILE:p:..>>> marker,
\* "FAILED_FLOW" / "FAILED_TRACE" = the two placeholder texts (both contain
\* the word "Failed").
\* ------------------------------------------------------------------------
Min(S) == CHOOSE i \in S : \A j \in S : i <= j

IsSpace(tok) == tok = "NL"

RECURSIVE trimStart(_)
trimStart(s) == IF s # <<>> /\ IsSpace(Head(s)) THEN trimStart(Tail(s)) ELSE s
RECURSIVE trimEnd(_)
trimEnd(s) ==
    IF s # <<>> /\ IsSpace(s[Len(s)]) THEN trimEnd(SubSeq(s, 1, Len(s) - 1)) ELSE s
trim(s) == trimEnd(trimStart(s))

includes(s, tok) == \E i \in 1..Len(s) : s[i] = tok

\* text.match(/### FLOW_VISUALIZATION\n([\s\S]*?)(?=### EXECUTION_TRACE)/)
flowMatch(text) ==
    LET S == {i \in 1..Len(text) : /\ i + 1 <= Len(text)
                                   /\ text[i] = "FH" /\ text[i + 1] = "NL"
                                   /\ \E j \in (i + 2)..Len(text) : text[j] = "TH"}
    IN IF S = {} THEN <<>>
       ELSE LET i == Min(S)
                j == Min({k \in (i + 2)..Len(text) : text[k] = "TH"})
            IN <<SubSeq(text, i + 2, j - 1)>>

\* text.match(/### EXECUTION_TRACE\n([\s\S]*)/)
traceMatch(text) ==
    LET S == {i \in 1..Len(text) : /\ i + 1 <= Len(text)
                                   /\ text[i] = "TH" /\ text[i + 1] = "NL"}
    IN IF S = {} THEN <<>>
       ELSE <<SubSeq(text, Min(S) + 2, Len(text))>>

FlowPlaceholder == <<"MM", "NL", "FAILED_FLOW", "NL", "FE">>
TracePlaceholder == <<"FAILED_TRACE">>

\* lines 375-390; the catch of lines 391-397 is not reachable, String.match
\* does not throw
analyzeSpecificRoute(text) ==
    LET fm == flowMatch(text)
        tm == traceMatch(text)
        f0 == IF fm # <<>> THEN trim(fm[1]) ELSE FlowPlaceholder
        t0 == IF tm # <<>> THEN trim(tm[1]) ELSE TracePlaceholder
    IN [flowVisualization |->
            IF f0 # <<>> /\ ~includes(f0, "MM") /\ ~includes(f0, "FAILED_FLOW")
            THEN <<"MM", "NL">> \o f0 \o <<"NL", "FE">> ELSE f0,
        executionTrace |-> t0]

\* ------------------------------------------------------------------------
\* lib/llm.ts: client pool, extractJSON, and the decoders of
\* analyzeArchitecture and analyzeRoutes.
\* Further tokens of a text: "FJ" = "```json", "PROSE" = free text,
\* "GRAPH" = a "graph TD ..." line, and JSON texts: "J_ARCH" = the object
\* asked for, "J_ARCH_GT" = the same with "-->|label|>" edges, "J_ROUTES" =
\* the array asked for, "J_NULL" = "null", "J_OBJ" = "{}", "J_ARR" = "[]",
\* "J_NUM" = "42".
\* A model answer's content is <<>> when absent, else <<text>>.
\* ------------------------------------------------------------------------
\* a pool that never uses the second secondary key (mutation)
pickSecondaryClient_alwaysFirst(routeIndex) == "groq1"

\* routeIndex % 2 === 0 ? groq1 : groq2
pickSecondaryClient(routeIndex) == IF routeIndex % 2 = 0 THEN "groq1" ELSE "groq2"

\* the client each kind of LLM call sends its request with
clientOf(call, routeIndex) ==
    IF call = "identify" THEN pickSecondaryClient(routeIndex) ELSE "groqMain"

\* JavaScript values: t is the type, v the payload (fields of an object,
\* elements of an array)
JsValue(t, v) == [t |-> t, v |-> v]
JsNull == JsValue("null", <<>>)

ArchitectureJson ==
    JsValue("object", [overallFlow |-> <<"FLOW">>, architectureMermaid |-> <<"GRAPH">>])
RoutesJson == JsValue("array", <<"route1", "route2">>)

IsJsonToken(tok) ==
    tok \in {"J_ARCH", "J_ARCH_GT", "J_ROUTES", "J_NULL", "J_OBJ", "J_ARR", "J_NUM"}

\* JSON.parse of a text that is one JSON token
JsonValue(tok) ==
    IF tok = "J_ARCH" THEN ArchitectureJson
    ELSE IF tok = "J_ARCH_GT"
         THEN JsValue("object", [overallFlow |-> <<"FLOW">>,
                                 architectureMermaid |-> <<"GRAPH_GT">>])
    ELSE IF tok = "J_ROUTES" THEN RoutesJson
    ELSE IF tok = "J_NULL" THEN JsNull
    ELSE IF tok = "J_OBJ" THEN JsValue("object", <<>>)
    ELSE IF tok = "J_ARR" THEN JsValue("array", <<>>)
    ELSE JsValue("number", <<>>)

\* JSON.parse: a value, or threw for anything that is not one JSON text
JSONparse(str) ==
    IF Len(str) = 1 /\ IsJsonToken(str[1])
    THEN [threw |-> FALSE, value |-> JsonValue(str[1])]
    ELSE [threw |-> TRUE, value |-> JsNull]

\* "```json" and "```" both start with the three backticks
IsFence(tok) == tok \in {"FJ", "FE"}
Fences(text) == {i \in 1..Len(text) : IsFence(text[i])}

\* lines 48-53: the first fenced block's inside if there is one, else the
\* whole text, trimmed and parsed.  A block closed by the backticks of a
\* "```json" leaves that token's "json" behind, outside the block.
extractJSON(text) ==
    LET F == Fences(text)
    IN IF Cardinality(F) >= 2
       THEN LET i == Min(F)
                j == Min(F \ {i})
            IN JSONparse(trim(SubSeq(text, i + 1, j - 1)))
       ELSE JSONparse(trim(text))

\* text.replace(/-->\|([^|]+)\|>/g, "-->|$1|")
repairEdgeLabels(text) ==
    [i \in 1..Len(text) |-> IF text[i] = "J_ARCH_GT" THEN "J_ARCH" ELSE text[i]]

\* text.replace(/```[\s\S]*?```/g, "")
RECURSIVE stripFenced(_)
stripFenced(text) ==
    LET F == Fences(text)
    IN IF Cardinality(F) >= 2
       THEN LET i == Min(F)
                j == Min(F \ {i})
            IN SubSeq(text, 1, i - 1)
               \o (IF text[j] = "FJ" THEN <<"PROSE">> ELSE <<>>)
               \o stripFenced(SubSeq(text, j + 1, Len(text)))
       ELSE text

\* text.match(/graph\s+(?:TD|LR|TB)[\s\S]*?(?=\n\n|\z)/): from the first
\* graph line up to the first blank line after it; without a blank line
\* there is no match (in a JavaScript pattern \z is the letter z)
mermaidMatch(text) ==
    LET S == {i \in 1..Len(text) :
                /\ text[i] = "GRAPH"
                /\ \E j \in (i + 1)..(Len(text) - 1) : text[j] = "NL" /\ text[j + 1] = "NL"}
    IN IF S = {} THEN <<>>
       ELSE LET i == Min(S)
                j == Min({k \in (i + 1)..(Len(text) - 1) :
                            text[k] = "NL" /\ text[k + 1] = "NL"})
            IN <<SubSeq(text, i, j - 1)>>

OverallFlowLimit == 600
NoDiagram == <<"COULD_NOT_GENERATE_DIAGRAM">>

\* lines 129-147: the decoder of analyzeArchitecture
analyzeArchitecture(content) ==
    LET text == repairEdgeLabels(IF content = <<>> THEN <<"J_OBJ">> ELSE content[1])
        parsed == extractJSON(text)
        stripped == stripFenced(text)
    IN IF ~parsed.threw THEN parsed.value
       ELSE JsValue("object",
                [overallFlow |-> SubSeq(stripped, 1, Min({Len(stripped), OverallFlowLimit})),
                 architectureMermaid |-> IF mermaidMatch(text) # <<>>
                                         THEN mermaidMatch(text)[1] ELSE NoDiagram])

FallbackRoutes == JsValue("array", <<"fallbackRoute">>)

\* lines 243-258: the decoder of analyzeRoutes
analyzeRoutes(content) ==
    LET parsed == extractJSON(IF content = <<>> THEN <<"J_ARR">> ELSE content[1])
    IN IF ~parsed.threw THEN parsed.value ELSE FallbackRoutes

\* reading a property of a JavaScript value: reading one of null throws a
\* TypeError, a missing one is undefined
getProperty(val, name) ==
    IF val.t = "null" THEN [threw |-> TRUE, value |-> <<>>]
    ELSE IF val.t = "object" /\ name \in DOMAIN val.v
         THEN [threw |-> FALSE, value |-> val.v[name]]
         ELSE [threw |-> FALSE, value |-> <<"undefined">>]

\* the model's answers to the execution-trace prompt (content ?? "")
TraceTexts ==
    { <<>>,
      <<"FH", "NL", "MM", "NL", "G", "NL", "FE", "NL", "TH", "NL", "T", "MK_f1">>,
      <<"FH", "NL", "G", "NL", "TH", "NL", "T", "MK_zz", "NL">>,
      <<"FH", "NL", "TH", "NL", "T">>,
      <<"FH", "NL", "NL", "TH", "NL", "T">>,
      <<"FH", "NL", "G", "NL", "TH", "NL">>,
      <<"FH", "NL", "G", "NL", "TH", "NL", "NL">>,
      <<"FH", "NL", "G", "NL", "TH">>,
      <<"TH", "NL", "T">>,
      <<"FH", "NL", "G">>,
      <<"FH", "NL", "TH", "NL">> }

\* Step E of the route handler as the handler model sees it: every marker
\* token becomes a fenced snippet of the named file ("SNIPPET", its extent
\* is the subject of replaceMarker below), or the "File not found" block
MarkerPath(tok) ==
    IF tok = "MK_f1" THEN "f1" ELSE IF tok = "MK_k1" THEN "k1"
    ELSE IF tok = "MK_zz" THEN "zz" ELSE ""

resolveMarkers(trace, fullFiles, keyFileContents) ==
    [i \in 1..Len(trace) |->
        IF MarkerPath(trace[i]) = "" THEN trace[i]
        ELSE IF includes(fullFiles, MarkerPath(trace[i]))
                \/ includes(keyFileContents, MarkerPath(trace[i]))
             THEN "SNIPPET"
             ELSE "FILE_NOT_FOUND"]

\* ------------------------------------------------------------------------
\* Step E in detail (analyze-route/route.ts lines 158-183): the callback of
\* the replace over /`?<+FILE:(.*?):(\d+)(?:-(\d+))?>+`?/g.
\* A trace is a sequence of items: text, or a marker with its three groups
\* (path, the start digits, the end digits or <<>> when that group did not
\* take part).  A file is its path and its content as a sequence of lines
\* (content.split("\n")).
\* ------------------------------------------------------------------------
Item(kind, path, start, end, lang, lines) ==
    [kind |-> kind, path |-> path, start |-> start, end |-> end,
     lang |-> lang, lines |-> lines]
TextItem == Item("text", "", 0, <<>>, "", <<>>)
MarkerItem(path, start, end) == Item("marker", path, start, end, "", <<>>)
\* ```lang\nsnippet\n```
SnippetItem(lang, lines) == Item("snippet", "", 0, <<>>, lang, lines)
\* ```plaintext\n// File not found: path\n```
NotFoundItem(path) == Item("notFound", path, 0, <<>>, "plaintext", <<>>)

Line(file, n) == [file |-> file, n |-> n]
File(path, tag, len) == [path |-> path, content |-> [i \in 1..len |-> Line(tag, i)]]

Max(S) == CHOOSE i \in S : \A j \in S : i >= j

\* files.find((f) => f.path === filePath): <<>> for undefined
find(files, path) ==
    LET S == {i \in 1..Len(files) : files[i].path = path}
    IN IF S = {} THEN <<>> ELSE <<files[Min(S)]>>

\* a slice that starts one line late (mutation)
slice_fromNext(lines, start, end) ==
    SubSeq(lines, Min({start, Len(lines)}) + 2, Min({end, Len(lines)}))

\* Array.prototype.slice(start, end) for start, end >= 0: the elements at
\* the 0-based positions start .. end-1 that exist
slice(lines, start, end) ==
    SubSeq(lines, Min({start, Len(lines)}) + 1, Min({end, Len(lines)}))

\* lines 175-180: the fence's language, by the path's extension
Extension(path) ==
    IF path \in {"lib/b.py"} THEN "py"
    ELSE IF path \in {"gone.go"} THEN "go"
    ELSE "ts"
langOf(path) ==
    IF Extension(path) = "py" THEN "python"
    ELSE IF Extension(path) = "go" THEN "go"
    ELSE IF Extension(path) \in {"js", "jsx"} THEN "javascript"
    ELSE IF Extension(path) = "rs" THEN "rust"
    ELSE IF Extension(path) = "java" THEN "java"
    ELSE "typescript"

\* line 171: the number of lines taken when the marker has no end
SnippetWindow == 30

\* lines 162-182: the replacement of one marker
replaceMarker(m, fullFiles, keyFileContents) ==
    LET file == IF find(fullFiles, m.path) # <<>> THEN find(fullFiles, m.path)
                ELSE find(keyFileContents, m.path)
    IN IF file = <<>> THEN NotFoundItem(m.path)
       ELSE LET start == Max({0, m.start - 1})
                end == IF m.end # <<>> THEN m.end[1] ELSE start + SnippetWindow
            IN SnippetItem(langOf(m.path), slice(file[1].content, start, end))

\* lines 159-183: the replace over the whole trace
resolveTrace(trace, fullFiles, keyFileContents) ==
    [i \in 1..Len(trace) |->
        IF trace[i].kind = "marker"
        THEN replaceMarker(trace[i], fullFiles, keyFileContents)
        ELSE trace[i]]

\* ------------------------------------------------------------------------
\* analyze-route/route.ts withRateLimitRetry, as a function of the outcomes
\* of the wrapped operation.  An outcome is Ok(value) or Fail(error).
\* state: "returned" (value), "threw" (the operation's own error is
\* rethrown), "exhausted" (RateLimitExhaustedError), "waiting" (timer set,
\* retry pending).
\* ------------------------------------------------------------------------
NoErr == Err(0, FALSE, <<>>)
Ok(v) == [ok |-> TRUE, value |-> v, err |-> NoErr]
Fail(e) == [ok |-> FALSE, value |-> <<>>, err |-> e]

RlIdle == [state |-> "idle", attempts |-> 0, waits |-> <<>>, value |-> <<>>,
           first |-> <<>>, thrown |-> <<>>]

\* lines 38-50: first attempt, classification of its failure, timer
firstAttempt(o) ==
    IF o.ok THEN [RlIdle EXCEPT !.state = "returned", !.attempts = 1, !.value = o.value]
    ELSE IF ~o.err.has429
         THEN [RlIdle EXCEPT !.state = "threw", !.attempts = 1,
                             !.first = <<o.err>>, !.thrown = <<o.err>>]
         ELSE LET w == parseGroq429WaitMs(o.err.hint)
              IN IF w.threw
                 THEN [RlIdle EXCEPT !.state = "exhausted", !.attempts = 1,
                                     !.first = <<o.err>>, !.thrown = <<o.err>>]
                 ELSE [RlIdle EXCEPT !.state = "waiting", !.attempts = 1,
                                     !.first = <<o.err>>, !.waits = <<w.ms>>]

\* a wrapper that keeps retrying while throttled (mutation)
retryAttempt_again(r, o) ==
    IF o.ok THEN [r EXCEPT !.state = "returned", !.attempts = @ + 1, !.value = o.value]
    ELSE IF o.err.has429
         THEN [r EXCEPT !.state = "waiting", !.attempts = @ + 1,
                        !.waits = Append(@, DefaultWait)]
         ELSE [r EXCEPT !.state = "threw", !.attempts = @ + 1, !.thrown = <<o.err>>]

\* lines 51-60: the single retry after the timer
retryAttempt(r, o) ==
    IF o.ok THEN [r EXCEPT !.state = "returned", !.attempts = @ + 1, !.value = o.value]
    ELSE IF o.err.has429
         THEN [r EXCEPT !.state = "exhausted", !.attempts = @ + 1, !.thrown = <<o.err>>]
         ELSE [r EXCEPT !.state = "threw", !.attempts = @ + 1, !.thrown = <<o.err>>]

\* ------------------------------------------------------------------------
\* Responses
\* ------------------------------------------------------------------------
Resp(st, tag, data, err) == [status |-> st, tag |-> tag, data |-> data, err |-> err]

\* a catch block that reports every failure alike (mutation)
POST_catch_generic(err) == Resp(500, "error", <<>>, <<err>>)

\* analyze/route.ts lines 137-159: the catch block of POST
POST_catch(err) ==
    IF err.status = 403 THEN Resp(429, "error", <<>>, <<err>>)
    ELSE IF err.status = 404 THEN Resp(404, "error", <<>>, <<err>>)
    ELSE Resp(500, "error", <<>>, <<err>>)

\* a catch block that reports every failure alike (mutation)
GET_catch_generic(r) == Resp(500, "error", <<>>, r.thrown)

\* analyze-route/route.ts lines 205-214: the catch block of GET
GET_catch(r) ==
    IF r.state = "exhausted" THEN Resp(402, "rateLimitExceeded", <<>>, <<>>)
    ELSE Resp(500, "error", <<>>, r.thrown)

\* failures of a source-host call: not found, rate limited, anything else
GitHubErrors == {Err(404, FALSE, <<>>), Err(403, FALSE, <<>>), Err(500, FALSE, <<>>)}

\* ------------------------------------------------------------------------
\* lib/github.ts: the seven fetchers of the evidence assembly, each as a
\* function of the outcome of its source-host call(s).  A fetcher either
\* returns (Ok) or throws (Fail).
\* ------------------------------------------------------------------------
\* repos.get is awaited bare: its failure is thrown
getRepoMetadata(o) == o
\* repos.listCommits is awaited bare: its failure is thrown (the try/catch
\* of lines 223-228 covers the contributor statistics only)
getCommits(o) == o
\* repos.listContributors is awaited bare: its failure is thrown
getContributors(o) == o
\* the four searches are under Promise.allSettled and the deployments
\* listing under try/catch: failures count as zero
getRepoStatus(o) == Ok(IF o.ok THEN o.value ELSE <<"zeroStatus">>)
\* the manifest reads are under Promise.allSettled: failures give the
\* stack with frontend and backend null
getTechStack(o) == Ok(IF o.ok THEN o.value ELSE <<"nullTechStack">>)
\* git.getTree is under try/catch: a failure gives []
getFileTree(o) == Ok(IF o.ok THEN o.value ELSE <<>>)
\* key files are picked from the tree and read one by one under try/catch:
\* an empty tree or failing reads give []
getKeyFileContents(fileTree, o) ==
    Ok(IF fileTree # <<>> /\ o.ok THEN o.value ELSE <<>>)

\* the outcomes of the source-host calls behind one assembly
Fetch(md, cm, cb, st, ts, tr, kf) ==
    [metadata |-> md, commits |-> cm, contributors |-> cb, status |-> st,
     techStack |-> ts, tree |-> tr, keyFiles |-> kf]

AllFetched ==
    Fetch(Ok(<<"metadata">>), Ok(<<"commits">>), Ok(<<"contributors">>),
          Ok(<<"status">>), Ok(<<"techStack">>), Ok(<<"f1", "k1">>), Ok(<<"k1">>))

\* analyze/route.ts lines 82-87: the fetchers under Promise.all whose
\* rejection rejects the whole
Rejections(f) ==
    {o \in {getRepoMetadata(f.metadata), getCommits(f.commits),
            getContributors(f.contributors)} : ~o.ok}

\* analyze/route.ts lines 82-93: the assembled evidence when nothing threw
assembleEvidence(f) ==
    LET fileTree == getFileTree(f.tree).value
    IN [metadata |-> getRepoMetadata(f.metadata).value,
        commits |-> getCommits(f.commits).value,
        contributors |-> getContributors(f.contributors).value,
        repoStatus |-> getRepoStatus(f.status).value,
        techStack |-> getTechStack(f.techStack).value,
        fileTree |-> fileTree,
        keyFileContents |-> getKeyFileContents(fileTree, f.keyFiles).value]

\* ------------------------------------------------------------------------
\* State
\* ------------------------------------------------------------------------
VARIABLES
    RepositoryAnalysis,  \* the RepositoryAnalysis collection
    RouteCache,          \* the RouteCache collection
    now,                 \* the clock read by `new Date()`
    pc,                  \* position of the request being served
    req,                 \* the request being served
    loc,                 \* local variables of the handler
    rl,                  \* the current / latest withRateLimitRetry call
    resp,                \* <<>> or <<the response returned>>
    calls,               \* calls made on behalf of the current request
    pre,                 \* the two collections when the request arrived
    mk,                  \* a Step E run on its own: its inputs and its result
    nz,                  \* a URL taken through parse, normalize, parse again
    ord,                 \* the sub-operations of one full-repository analysis
    race,                \* two requests served at the same time
    page,                \* the route-analysis page (state of AnalyzeRouteContent)
    db                   \* mongooseCache and the callers of connectDB

vars == <<RepositoryAnalysis, RouteCache, now, pc, req, loc, rl, resp, calls, pre,
          mk, nz, ord, race, page, db>>

\* what the two handlers served one request at a time leave alone
others == <<mk, nz, ord, race, page, db>>
\* the state of the two handlers served one request at a time
handlers == <<pc, req, loc, rl, resp, calls, pre>>

\* no Step E run on its own
NoRun == [trace |-> <<>>, fullFiles |-> <<>>, keyFileContents |-> <<>>, out |-> <<>>]

\* no URL under normalization
NoNz == [url |-> NoUrl, stage |-> "idle", first |-> <<>>, normalized |-> <<>>,
         second |-> <<>>]
\* the awaited sub-operations of one full-repository analysis
FanOut1 == {"getRepoMetadata", "getCommits", "getContributors", "getRepoStatus",
            "getTechStack"}
FanOut2 == {"analyzeArchitecture", "analyzeRoutes"}
Ops == FanOut1 \cup {"getFileTree", "getKeyFileContents"} \cup FanOut2
          \cup {"findOneAndUpdate"}
\* no analysis under way: where the handler stands, and each sub-operation
\* "idle" (not called), "running", "ok" (fulfilled) or "failed" (rejected)
NoOrd == [pc |-> "idle", st |-> [op \in Ops |-> "idle"]]
\* a request served at the same time as another: its handler, its
\* forceRefresh / forceReload, its position, what it has computed, what it
\* has written (the computed payload and the time of the write) and the tag
\* of its answer
NoProc == [handler |-> "", force |-> FALSE, pc |-> "idle", repoDoc |-> <<>>,
           computed |-> <<>>, wrote |-> <<>>, tag |-> ""]
\* the two requests, and what was written last to each store
NoRace == [procs |-> [p \in 1..2 |-> NoProc], lastRepo |-> <<>>, lastRoute |-> <<>>]
\* the route-analysis page as constructed (page.tsx lines 227-238): the
\* query parameters it was opened with, the useState values, where it
\* stands ("idle", "mounted", "fetching", "settled"), the forceReload of
\* its current fetch and the outcome its last fetch ended with
NoPage == [pc |-> "idle", repoUrl |-> FALSE, route |-> FALSE, routeIndex |-> "0",
           forceReload |-> FALSE,
           loading |-> TRUE, reloading |-> FALSE, result |-> <<>>, error |-> <<>>,
           fromCache |-> FALSE, rateLimitExceeded |-> FALSE, last |-> <<>>]
\* requests that call connectDB
Callers == 1..3
\* lib/mongodb.ts lines 22-26: global.mongooseCache as constructed, with
\* the connection attempts made so far (each "pending", "resolved" or
\* "rejected"; an attempt is named by its position), the callers (where
\* each stands and the attempt it awaits), the callers suspended at the
\* await in order of arrival, and the continuations queued to run.
\* conn and promise are 0 for null, else the attempt they come from.
NoDb == [conn |-> 0, promise |-> 0, attempts |-> <<>>,
         callers |-> [c \in Callers |-> [pc |-> "idle", on |-> 0]],
         waiting |-> <<>>, micro |-> <<>>]

NoReq == [handler |-> "", authed |-> FALSE, bodyOk |-> FALSE, repoUrl |-> NoUrl,
          force |-> FALSE, route |-> "", routeIndex |-> 0]
NoLoc == [normalizedUrl |-> NoUrl, owner |-> Seg("", 0), repo |-> Seg("", 0),
          fetch |-> <<>>, evidence |-> <<>>, answers |-> <<>>, repoDoc |-> <<>>, filePaths |-> <<>>,
          relevantPaths |-> <<>>, fullFiles |-> <<>>, codebaseStr |-> <<>>,
          result |-> <<>>]
NoCalls == [connect |-> 0, llm |-> 0, github |-> 0, repoReads |-> 0,
            routeReads |-> 0, repoWrites |-> 0, routeWrites |-> 0, clients |-> {}]

Init ==
    /\ RepositoryAnalysis = <<>>
    /\ RouteCache = <<>>
    /\ now = 0
    /\ pc = "idle"
    /\ req = NoReq
    /\ loc = NoLoc
    /\ rl = RlIdle
    /\ resp = <<>>
    /\ calls = NoCalls
    /\ pre = [repo |-> <<>>, route |-> <<>>]
    /\ mk = NoRun
    /\ nz = NoNz
    /\ ord = NoOrd
    /\ race = NoRace
    /\ page = NoPage
    /\ db = NoDb

Accepting == pc \in {"idle", "done"} /\ now < MaxClock

Reply(r) == resp' = <<r>> /\ pc' = "done"

\* ------------------------------------------------------------------------
\* POST /api/analyze  (analyze/route.ts lines 34-160)
\* ------------------------------------------------------------------------
\* a handler that opens the store connection before it looks at the
\* session and the input (mutation)
POST_Receive_connectFirst(authed, bodyOk, url, force) ==
    /\ UNCHANGED others
    /\ Accepting
    /\ req' = [NoReq EXCEPT !.handler = "POST", !.authed = authed, !.bodyOk = bodyOk,
                            !.repoUrl = url, !.force = force]
    /\ calls' = [NoCalls EXCEPT !.connect = 1]
    /\ rl' = RlIdle
    /\ pre' = [repo |-> RepositoryAnalysis, route |-> RouteCache]
    /\ UNCHANGED <<RepositoryAnalysis, RouteCache, now>>
    /\ IF ~authed
       THEN Reply(Resp(401, "error", <<>>, <<>>)) /\ loc' = NoLoc
       ELSE IF ~bodyOk \/ url = NoUrl \/ parseGitHubUrl(url) = <<>>
       THEN Reply(Resp(400, "error", <<>>, <<>>)) /\ loc' = NoLoc
       ELSE LET parsed == parseGitHubUrl(url)[1]
            IN /\ loc' = [NoLoc EXCEPT !.owner = parsed.owner, !.repo = parsed.repo,
                              !.normalizedUrl = normalizedUrl(parsed.owner, parsed.repo)]
               /\ pc' = "p_cache"
               /\ resp' = <<>>

\* lines 35-69: session check, body, URL parse, connectDB (line 66)
POST_Receive(authed, bodyOk, url, force) ==
    /\ UNCHANGED others
    /\ Accepting
    /\ req' = [NoReq EXCEPT !.handler = "POST", !.authed = authed, !.bodyOk = bodyOk,
                            !.repoUrl = url, !.force = force]
    /\ calls' = IF authed /\ bodyOk /\ url # NoUrl /\ parseGitHubUrl(url) # <<>>
                THEN [NoCalls EXCEPT !.connect = 1] ELSE NoCalls
    /\ rl' = RlIdle
    /\ pre' = [repo |-> RepositoryAnalysis, route |-> RouteCache]
    /\ UNCHANGED <<RepositoryAnalysis, RouteCache, now>>
    /\ IF ~authed
       THEN Reply(Resp(401, "error", <<>>, <<>>)) /\ loc' = NoLoc
       ELSE IF ~bodyOk \/ url = NoUrl \/ parseGitHubUrl(url) = <<>>
       THEN Reply(Resp(400, "error", <<>>, <<>>)) /\ loc' = NoLoc
       ELSE LET parsed == parseGitHubUrl(url)[1]
            IN /\ loc' = [NoLoc EXCEPT !.owner = parsed.owner, !.repo = parsed.repo,
                              !.normalizedUrl = normalizedUrl(parsed.owner, parsed.repo)]
               /\ pc' = "p_cache"
               /\ resp' = <<>>

\* a cache check that ignores the stored record (mutation)
POST_CacheCheck_skip ==
    /\ UNCHANGED others
    /\ pc = "p_cache"
    /\ pc' = "p_github"
    /\ UNCHANGED <<RepositoryAnalysis, RouteCache, now, req, loc, rl, resp, calls, pre>>

\* lines 71-76: the cache read, unless forceRefresh
POST_CacheCheck ==
    /\ UNCHANGED others
    /\ pc = "p_cache"
    /\ UNCHANGED <<RepositoryAnalysis, RouteCache, now, req, loc, rl, pre>>
    /\ IF ~req.force
       THEN LET cached == findOne(RepositoryAnalysis, [repoUrl |-> loc.normalizedUrl])
            IN /\ calls' = [calls EXCEPT !.repoReads = @ + 1]
               /\ IF cached # <<>>
                  THEN Reply(Resp(200, "cached:true", cached, <<>>))
                  ELSE pc' = "p_github" /\ UNCHANGED resp
       ELSE pc' = "p_github" /\ UNCHANGED <<resp, calls>>

\* an assembly that begins by dropping the record a forced refresh is about
\* to replace (mutation)
POST_GitHub_dropFirst(f) ==
    /\ UNCHANGED others
    /\ pc = "p_github"
    /\ calls' = [calls EXCEPT !.github = @ + 1]
    /\ RepositoryAnalysis' =
          IF req.force
          THEN SelectSeq(RepositoryAnalysis, LAMBDA d : d.repoUrl # loc.normalizedUrl)
          ELSE RepositoryAnalysis
    /\ UNCHANGED <<RouteCache, now, req, rl, pre>>
    /\ IF Rejections(f) = {}
       THEN /\ loc' = [loc EXCEPT !.fetch = <<f>>,
                                  !.evidence = <<assembleEvidence(f)>>]
            /\ pc' = "p_llm"
            /\ UNCHANGED resp
       ELSE /\ \E o \in Rejections(f) : Reply(POST_catch(o.err))
            /\ loc' = [loc EXCEPT !.fetch = <<f>>]

\* lines 78-93: evidence assembly.  The first rejection of the Promise.all
\* reaches the catch block; which of several rejections is the first is
\* not determined.
POST_GitHub(f) ==
    /\ UNCHANGED others
    /\ pc = "p_github"
    /\ calls' = [calls EXCEPT !.github = @ + 1]
    /\ UNCHANGED <<RepositoryAnalysis, RouteCache, now, req, rl, pre>>
    /\ IF Rejections(f) = {}
       THEN /\ loc' = [loc EXCEPT !.fetch = <<f>>,
                                  !.evidence = <<assembleEvidence(f)>>]
            /\ pc' = "p_llm"
            /\ UNCHANGED resp
       ELSE /\ \E o \in Rejections(f) : Reply(POST_catch(o.err))
            /\ loc' = [loc EXCEPT !.fetch = <<f>>]

\* the TypeError of a property read on null: an error without a status
TypeError == Err(0, FALSE, <<>>)

\* lines 95-107: analyzeArchitecture and analyzeRoutes under Promise.all;
\* neither is wrapped in a retry, the first rejection reaches the catch
\* block.  oa and orr are the outcomes of the two completions: Ok(content of
\* the answer) or Fail(error).  Lines 103-107 read the two fields of the
\* architecture result.
POST_LLM(oa, orr) ==
    /\ UNCHANGED others
    /\ pc = "p_llm"
    /\ calls' = [calls EXCEPT !.llm = @ + 2,
                              !.clients = @ \cup {<<"architecture", clientOf("architecture", 0)>>,
                                                  <<"routes", clientOf("routes", 0)>>}]
    /\ UNCHANGED <<RepositoryAnalysis, RouteCache, now, req, rl, pre>>
    /\ IF oa.ok /\ orr.ok
       THEN LET architectureResult == analyzeArchitecture(oa.value)
                routesResult == analyzeRoutes(orr.value)
                overallFlow == getProperty(architectureResult, "overallFlow")
                architectureMermaid == getProperty(architectureResult, "architectureMermaid")
            IN IF overallFlow.threw \/ architectureMermaid.threw
               THEN /\ Reply(POST_catch(TypeError))
                    /\ loc' = [loc EXCEPT !.answers = <<oa, orr>>]
               ELSE /\ loc' = [loc EXCEPT !.answers = <<oa, orr>>,
                                          !.result =
                                  <<[overallFlow |-> overallFlow.value,
                                     architectureMermaid |-> architectureMermaid.value,
                                     routes |-> routesResult]>>]
                    /\ pc' = "p_save"
                    /\ UNCHANGED resp
       ELSE /\ \E e \in {o.err : o \in {x \in {oa, orr} : ~x.ok}} : Reply(POST_catch(e))
            /\ loc' = [loc EXCEPT !.answers = <<oa, orr>>]

\* a save that also drops the repository's per-route records (mutation)
POST_Save_wipeRoutes ==
    /\ UNCHANGED others
    /\ pc = "p_save"
    /\ LET update == [repoUrl |-> loc.normalizedUrl,
                      owner |-> loc.owner,
                      repoName |-> loc.repo,
                      metadata |-> loc.evidence[1].metadata,
                      commits |-> loc.evidence[1].commits,
                      contributors |-> loc.evidence[1].contributors,
                      repoStatus |-> loc.evidence[1].repoStatus,
                      techStack |-> loc.evidence[1].techStack,
                      fileTree |-> loc.evidence[1].fileTree,
                      keyFileContents |-> loc.evidence[1].keyFileContents,
                      llmAnalysis |-> loc.result[1],
                      analyzedAt |-> now]
           coll == findOneAndUpdate(RepositoryAnalysis,
                                    [repoUrl |-> loc.normalizedUrl], update)
       IN /\ RepositoryAnalysis' = coll
          /\ Reply(Resp(200, "cached:false",
                        findOne(coll, [repoUrl |-> loc.normalizedUrl]), <<>>))
    /\ RouteCache' = SelectSeq(RouteCache, LAMBDA d : d.repoUrl # loc.normalizedUrl)
    /\ now' = now + 1
    /\ calls' = [calls EXCEPT !.repoWrites = @ + 1]
    /\ UNCHANGED <<req, loc, rl, pre>>

\* lines 109-136: upsert of the repository record and the response
POST_Save ==
    /\ UNCHANGED others
    /\ pc = "p_save"
    /\ LET update == [repoUrl |-> loc.normalizedUrl,
                      owner |-> loc.owner,
                      repoName |-> loc.repo,
                      metadata |-> loc.evidence[1].metadata,
                      commits |-> loc.evidence[1].commits,
                      contributors |-> loc.evidence[1].contributors,
                      repoStatus |-> loc.evidence[1].repoStatus,
                      techStack |-> loc.evidence[1].techStack,
                      fileTree |-> loc.evidence[1].fileTree,
                      keyFileContents |-> loc.evidence[1].keyFileContents,
                      llmAnalysis |-> loc.result[1],
                      analyzedAt |-> now]
           coll == findOneAndUpdate(RepositoryAnalysis,
                                    [repoUrl |-> loc.normalizedUrl], update)
       IN /\ RepositoryAnalysis' = coll
          /\ Reply(Resp(200, "cached:false",
                        findOne(coll, [repoUrl |-> loc.normalizedUrl]), <<>>))
    /\ now' = now + 1
    /\ calls' = [calls EXCEPT !.repoWrites = @ + 1]
    /\ UNCHANGED <<RouteCache, req, loc, rl, pre>>

\* ------------------------------------------------------------------------
\* GET /api/analyze-route  (analyze-route/route.ts lines 65-215)
\* ------------------------------------------------------------------------
\* lines 66-81: session check, query parameters, connectDB (line 81)
GET_Receive(authed, url, route, routeIndex, force) ==
    /\ UNCHANGED others
    /\ Accepting
    /\ req' = [NoReq EXCEPT !.handler = "GET", !.authed = authed, !.bodyOk = TRUE,
                            !.repoUrl = url, !.route = route,
                            !.routeIndex = routeIndex, !.force = force]
    /\ calls' = IF authed /\ url # NoUrl /\ route # ""
                THEN [NoCalls EXCEPT !.connect = 1] ELSE NoCalls
    /\ rl' = RlIdle
    /\ loc' = NoLoc
    /\ pre' = [repo |-> RepositoryAnalysis, route |-> RouteCache]
    /\ UNCHANGED <<RepositoryAnalysis, RouteCache, now>>
    /\ IF ~authed
       THEN Reply(Resp(401, "error", <<>>, <<>>))
       ELSE IF url = NoUrl \/ route = ""
       THEN Reply(Resp(400, "error", <<>>, <<>>))
       ELSE pc' = "g_cache" /\ resp' = <<>>

\* a hit test that only asks for a stored record (mutation)
CacheHit_anyRecord(cached) == cached # <<>>

\* cached?.flowVisualization && cached?.executionTrace
CacheHit(cached) ==
    /\ cached # <<>>
    /\ cached[1].flowVisualization # <<>>
    /\ cached[1].executionTrace # <<>>

\* a cache check that does not look at forceReload (mutation)
GET_CacheCheck_ignoreForce ==
    /\ UNCHANGED others
    /\ pc = "g_cache"
    /\ UNCHANGED <<RepositoryAnalysis, RouteCache, now, req, loc, rl, pre>>
    /\ LET cached == findOne(RouteCache, [repoUrl |-> req.repoUrl, route |-> req.route])
       IN /\ calls' = [calls EXCEPT !.routeReads = @ + 1]
          /\ IF CacheHit(cached)
             THEN Reply(Resp(200, "fromCache:true",
                             <<[flowVisualization |-> cached[1].flowVisualization,
                                executionTrace |-> cached[1].executionTrace]>>, <<>>))
             ELSE pc' = "g_repo" /\ UNCHANGED resp

\* lines 83-99: the route-cache read, unless forceReload
GET_CacheCheck ==
    /\ UNCHANGED others
    /\ pc = "g_cache"
    /\ UNCHANGED <<RepositoryAnalysis, RouteCache, now, req, loc, rl, pre>>
    /\ IF ~req.force
       THEN LET cached == findOne(RouteCache, [repoUrl |-> req.repoUrl, route |-> req.route])
            IN /\ calls' = [calls EXCEPT !.routeReads = @ + 1]
               /\ IF CacheHit(cached)
                  THEN Reply(Resp(200, "fromCache:true",
                                  <<[flowVisualization |-> cached[1].flowVisualization,
                                     executionTrace |-> cached[1].executionTrace]>>, <<>>))
                  ELSE pc' = "g_repo" /\ UNCHANGED resp
       ELSE pc' = "g_repo" /\ UNCHANGED <<resp, calls>>

\* the answer of lines 103-107: status 404 and the message
\* "Repository not analyzed yet. Run the general analysis first."
NotAnalyzedYet == Resp(404, "notAnalyzedYet", <<>>, <<>>)

\* a lookup whose miss is reported as a generic failure (mutation)
GET_LoadRepo_generic ==
    /\ UNCHANGED others
    /\ pc = "g_repo"
    /\ calls' = [calls EXCEPT !.repoReads = @ + 1]
    /\ UNCHANGED <<RepositoryAnalysis, RouteCache, now, req, rl, pre>>
    /\ LET repoDoc == findOne(RepositoryAnalysis, [repoUrl |-> req.repoUrl])
       IN IF repoDoc = <<>>
          THEN Reply(Resp(500, "error", <<>>, <<>>)) /\ UNCHANGED loc
          ELSE /\ loc' = [loc EXCEPT !.repoDoc = repoDoc,
                              !.filePaths = IF repoDoc[1].fileTree # <<>>
                                            THEN repoDoc[1].fileTree
                                            ELSE repoDoc[1].keyFileContents]
               /\ pc' = "g_A1"
               /\ UNCHANGED resp

\* lines 101-120: the repository record and the list of file paths
GET_LoadRepo ==
    /\ UNCHANGED others
    /\ pc = "g_repo"
    /\ calls' = [calls EXCEPT !.repoReads = @ + 1]
    /\ UNCHANGED <<RepositoryAnalysis, RouteCache, now, req, rl, pre>>
    /\ LET repoDoc == findOne(RepositoryAnalysis, [repoUrl |-> req.repoUrl])
       IN IF repoDoc = <<>>
          THEN Reply(NotAnalyzedYet) /\ UNCHANGED loc
          ELSE /\ loc' = [loc EXCEPT !.repoDoc = repoDoc,
                              !.filePaths = IF repoDoc[1].fileTree # <<>>
                                            THEN repoDoc[1].fileTree
                                            ELSE repoDoc[1].keyFileContents]
               /\ pc' = "g_A1"
               /\ UNCHANGED resp

\* what identifyRelevantFilesForRoute returns: paths named by the model
RelevantPaths == {<<>>, <<"f1">>, <<"zz">>}

\* the LLM call wrapped at a position of the route handler: Step A is
\* identifyRelevantFilesForRoute, Step D is analyzeSpecificRoute
CallAt(p) == IF p \in {"g_A1", "g_A2"} THEN "identify" ELSE "trace"

\* lines 122-125 and 153-156: first attempt of a rate-limit-protected call
\* (Step A at "g_A1", Step D at "g_D1")
RL_First(o) ==
    /\ UNCHANGED others
    /\ pc \in {"g_A1", "g_D1"}
    /\ rl' = firstAttempt(o)
    /\ calls' = [calls EXCEPT !.llm = @ + 1,
                              !.clients = @ \cup {<<CallAt(pc), clientOf(CallAt(pc), req.routeIndex)>>}]
    /\ UNCHANGED <<RepositoryAnalysis, RouteCache, now, req, pre>>
    /\ IF rl'.state = "returned"
       THEN /\ IF pc = "g_A1"
               THEN loc' = [loc EXCEPT !.relevantPaths = o.value] /\ pc' = "g_fetch"
               ELSE loc' = [loc EXCEPT !.result = <<analyzeSpecificRoute(o.value)>>]
                    /\ pc' = "g_save"
            /\ UNCHANGED resp
       ELSE IF rl'.state = "waiting"
       THEN /\ pc' = IF pc = "g_A1" THEN "g_A2" ELSE "g_D2"
            /\ UNCHANGED <<loc, resp>>
       ELSE Reply(GET_catch(rl')) /\ UNCHANGED loc

\* line 51: the retry, once the timer has fired
RL_Retry(o) ==
    /\ UNCHANGED others
    /\ pc \in {"g_A2", "g_D2"}
    /\ rl.state = "waiting"
    /\ rl' = retryAttempt(rl, o)
    /\ calls' = [calls EXCEPT !.llm = @ + 1,
                              !.clients = @ \cup {<<CallAt(pc), clientOf(CallAt(pc), req.routeIndex)>>}]
    /\ UNCHANGED <<RepositoryAnalysis, RouteCache, now, req, pre>>
    /\ IF rl'.state = "returned"
       THEN /\ IF pc = "g_A2"
               THEN loc' = [loc EXCEPT !.relevantPaths = o.value] /\ pc' = "g_fetch"
               ELSE loc' = [loc EXCEPT !.result = <<analyzeSpecificRoute(o.value)>>]
                    /\ pc' = "g_save"
            /\ UNCHANGED resp
       ELSE IF rl'.state = "waiting"
       THEN UNCHANGED <<pc, loc, resp>>
       ELSE Reply(GET_catch(rl')) /\ UNCHANGED loc

\* lib/github getSpecificFiles (imported at line 7): the full files found
\* for the given paths; none when the fetch fails altogether
getSpecificFiles(paths) == {<<>>, paths}

\* lines 127-151: Step B (full files of the identified paths) and Step C
\* (fallback to the stored key files when nothing was fetched)
GET_Fetch(fetched) ==
    /\ UNCHANGED others
    /\ pc = "g_fetch"
    /\ UNCHANGED <<RepositoryAnalysis, RouteCache, now, req, rl, resp, pre>>
    /\ LET keyFiles == loc.repoDoc[1].keyFileContents
           fullFiles == IF loc.relevantPaths # <<>> THEN fetched ELSE <<>>
       IN /\ IF loc.relevantPaths # <<>>
             THEN calls' = [calls EXCEPT !.github = @ + 1]
             ELSE fetched = <<>> /\ UNCHANGED calls
          /\ loc' = [loc EXCEPT !.fullFiles = IF fullFiles # <<>> THEN fullFiles ELSE keyFiles,
                                !.codebaseStr = IF fullFiles # <<>> THEN fullFiles ELSE keyFiles]
    /\ pc' = "g_D1"

\* lines 158-203: Step E (source references), Step F (upsert), response
GET_Save ==
    /\ UNCHANGED others
    /\ pc = "g_save"
    /\ LET result == loc.result[1]
           trace == IF result.executionTrace # <<>>
                    THEN resolveMarkers(result.executionTrace, loc.fullFiles,
                                        loc.repoDoc[1].keyFileContents)
                    ELSE result.executionTrace
           update == [repoUrl |-> req.repoUrl,
                      route |-> req.route,
                      flowVisualization |-> result.flowVisualization,
                      executionTrace |-> trace,
                      cachedAt |-> now]
       IN /\ RouteCache' = findOneAndUpdate(RouteCache,
                               [repoUrl |-> req.repoUrl, route |-> req.route], update)
          /\ Reply(Resp(200, "fromCache:false",
                        <<[flowVisualization |-> result.flowVisualization,
                           executionTrace |-> trace]>>, <<>>))
    /\ now' = now + 1
    /\ calls' = [calls EXCEPT !.routeWrites = @ + 1]
    /\ UNCHANGED <<RepositoryAnalysis, req, loc, rl, pre>>

\* ------------------------------------------------------------------------
\* Specification
\* ------------------------------------------------------------------------
\* the route's ordinal position in the page's route list
RouteIndex(route) == IF route = "/a" THEN 0 ELSE 1

PostReq(a, b, u, f) == [authed |-> a, bodyOk |-> b, url |-> u, force |-> f]
GetReq(a, u, r, f) == [authed |-> a, url |-> u, route |-> r,
                       routeIndex |-> RouteIndex(r), force |-> f]

AnyGitHubUrl == CHOOSE u \in GitHubUrls : TRUE

\* requests to POST /api/analyze: without session, with a broken body,
\* without repoUrl, with a URL that does not parse, and well-formed ones
PostRequests ==
    {PostReq(FALSE, TRUE, AnyGitHubUrl, FALSE), PostReq(FALSE, FALSE, NoUrl, FALSE),
     PostReq(TRUE, FALSE, NoUrl, FALSE), PostReq(TRUE, TRUE, NoUrl, FALSE)} \cup
    {PostReq(TRUE, TRUE, u, FALSE) : u \in BadUrls} \cup
    {PostReq(TRUE, TRUE, u, f) : u \in GitHubUrls, f \in BOOLEAN}

\* requests to GET /api/analyze-route
GetRequests ==
    {GetReq(FALSE, AnyGitHubUrl, "/a", FALSE), GetReq(FALSE, NoUrl, "", FALSE),
     GetReq(TRUE, NoUrl, "/a", FALSE),
     GetReq(TRUE, AnyGitHubUrl, "", FALSE)} \cup
    {GetReq(TRUE, u, "/a", FALSE) : u \in BadUrls} \cup
    {GetReq(TRUE, u, r, f) : u \in GitHubUrls, r \in Routes, f \in BOOLEAN}

\* failures of an LLM call explored together with the stores: one per class
\* (short wait, long wait, no hint, plain failure, failure mentioning 429)
SomeLLMErrors ==
    {Err(429, TRUE, <<Tok(7660, "s")>>), Err(429, TRUE, <<Tok(2, "h")>>),
     Err(429, TRUE, <<>>), Err(500, FALSE, <<>>), Err(400, TRUE, <<>>)}

\* answers of relevance identification explored together with the stores
SomeRelevantPaths == {<<>>, <<"f1">>}
\* answers to the execution-trace prompt explored together with the stores:
\* both sections filled, and an empty trace section
SomeTraceTexts ==
    { <<"FH", "NL", "MM", "NL", "G", "NL", "FE", "NL", "TH", "NL", "T", "MK_f1">>,
      <<"FH", "NL", "G", "NL", "TH", "NL">> }

\* assemblies explored together with the stores: everything fetched, the
\* metadata fetch failing in each way, the commit listing failing
SomeFetches ==
    {AllFetched,
     [AllFetched EXCEPT !.commits = Fail(Err(500, FALSE, <<>>))]} \cup
    {[AllFetched EXCEPT !.metadata = Fail(e)] : e \in GitHubErrors}

PostLLMOutcomes(v) == {Ok(<<<<v>>>>)} \cup {Fail(e) : e \in SomeLLMErrors}

Next ==
    \/ \E r \in PostRequests : POST_Receive(r.authed, r.bodyOk, r.url, r.force)
    \/ POST_CacheCheck
    \/ \E f \in SomeFetches : POST_GitHub(f)
    \/ \E oa \in PostLLMOutcomes("J_ARCH"), orr \in PostLLMOutcomes("J_ROUTES") :
          POST_LLM(oa, orr)
    \/ POST_Save
    \/ \E r \in GetRequests : GET_Receive(r.authed, r.url, r.route, r.routeIndex, r.force)
    \/ GET_CacheCheck
    \/ GET_LoadRepo
    \/ \E o \in {Ok(v) : v \in IF pc = "g_A1" THEN SomeRelevantPaths ELSE SomeTraceTexts}
                \cup {Fail(e) : e \in SomeLLMErrors} :
          RL_First(o)
    \/ \E o \in {Ok(v) : v \in IF pc = "g_A2" THEN SomeRelevantPaths ELSE SomeTraceTexts}
                \cup {Fail(e) : e \in SomeLLMErrors} :
          RL_Retry(o)
    \/ \E fetched \in getSpecificFiles(loc.relevantPaths) : GET_Fetch(fetched)
    \/ GET_Save

Spec == Init /\ [][Next]_vars

\* ------------------------------------------------------------------------
\* The same handlers with one repository URL and one route, and the whole
\* universe of LLM failures and answers: the specification under which the
\* rate-limit wrapper and its classifier are examined.
\* ------------------------------------------------------------------------
PlainUrl == Url("github.com", <<Seg("o", 0), Seg("r", 0)>>, FALSE)

NextRetry ==
    \/ \E f \in BOOLEAN : POST_Receive(TRUE, TRUE, PlainUrl, f)
    \/ POST_CacheCheck
    \/ \E f \in {AllFetched, [AllFetched EXCEPT !.tree = Fail(Err(500, FALSE, <<>>))]} :
          POST_GitHub(f)
    \/ POST_LLM(Ok(<<<<"J_ARCH">>>>), Ok(<<<<"J_ROUTES">>>>))
    \/ POST_Save
    \/ \E f \in BOOLEAN : GET_Receive(TRUE, PlainUrl, "/a", RouteIndex("/a"), f)
    \/ GET_CacheCheck
    \/ GET_LoadRepo
    \/ \E o \in {Ok(v) : v \in IF pc = "g_A1" THEN RelevantPaths ELSE TraceTexts}
                \cup {Fail(e) : e \in LLMErrors} :
          RL_First(o)
    \/ \E o \in {Ok(v) : v \in IF pc = "g_A2" THEN RelevantPaths ELSE TraceTexts}
                \cup {Fail(e) : e \in RetryErrors} :
          RL_Retry(o)
    \/ \E fetched \in getSpecificFiles(loc.relevantPaths) : GET_Fetch(fetched)
    \/ GET_Save

SpecRetry == Init /\ [][NextRetry]_vars

\* ------------------------------------------------------------------------
\* The route handler with its progress: the repository is analyzed once
\* with everything succeeding, route requests follow.  Every awaited call
\* of a route request returns or fails, so a request that has a step to
\* take takes it; nothing obliges a client to send a request.
\* ------------------------------------------------------------------------
RouteSteps ==
    \/ GET_CacheCheck
    \/ GET_LoadRepo
    \/ \E o \in {Ok(v) : v \in IF pc = "g_A1" THEN RelevantPaths ELSE SomeTraceTexts}
                \cup {Fail(e) : e \in LLMErrors} :
          RL_First(o)
    \/ \E o \in {Ok(v) : v \in IF pc = "g_A2" THEN RelevantPaths ELSE SomeTraceTexts}
                \cup {Fail(e) : e \in RetryErrors} :
          RL_Retry(o)
    \/ \E fetched \in getSpecificFiles(loc.relevantPaths) : GET_Fetch(fetched)
    \/ GET_Save

NextRoute ==
    \/ POST_Receive(TRUE, TRUE, PlainUrl, FALSE)
    \/ POST_CacheCheck
    \/ POST_GitHub(AllFetched)
    \/ POST_LLM(Ok(<<<<"J_ARCH">>>>), Ok(<<<<"J_ROUTES">>>>))
    \/ POST_Save
    \/ \E f \in BOOLEAN : GET_Receive(TRUE, PlainUrl, "/a", RouteIndex("/a"), f)
    \/ RouteSteps

SpecRoute == Init /\ [][NextRoute]_vars /\ WF_vars(RouteSteps)

\* ------------------------------------------------------------------------
\* The full-repository handler alone, one URL, not forced, with every
\* combination of source-host outcomes and the universe of model answers:
\* the specification under which the evidence assembly and the decoders of
\* the two LLM passes are examined.
\* ------------------------------------------------------------------------
ServerError == Err(500, FALSE, <<>>)

Fetches ==
    {Fetch(md, cm, cb, st, ts, tr, kf) :
        md \in {AllFetched.metadata} \cup {Fail(e) : e \in GitHubErrors},
        cm \in {AllFetched.commits, Fail(ServerError), Fail(Err(403, FALSE, <<>>))},
        cb \in {AllFetched.contributors, Fail(ServerError)},
        st \in {AllFetched.status, Fail(ServerError)},
        ts \in {AllFetched.techStack, Fail(ServerError)},
        tr \in {AllFetched.tree, Fail(ServerError)},
        kf \in {AllFetched.keyFiles, Fail(ServerError)}}

\* contents of the answer to the architecture prompt: absent, the object
\* asked for (bare, fenced, with the edge-label slip, after prose), JSON of
\* another shape, text that is no JSON, the empty string
ArchitectureContents ==
    { <<>>,
      <<<<"J_ARCH">>>>,
      <<<<"FJ", "NL", "J_ARCH", "NL", "FE">>>>,
      <<<<"J_ARCH_GT">>>>,
      <<<<"PROSE", "NL", "J_ARCH">>>>,
      <<<<"J_NULL">>>>,
      <<<<"J_ROUTES">>>>,
      <<<<"J_NUM">>>>,
      <<<<"PROSE">>>>,
      <<<<"PROSE", "NL", "GRAPH", "NL", "NL", "PROSE">>>>,
      <<<<"PROSE", "FE", "NL", "GRAPH", "NL", "FE">>>>,
      <<<<>>>> }

\* contents of the answer to the route-catalog prompt
RoutesContents ==
    { <<>>,
      <<<<"J_ROUTES">>>>,
      <<<<"FE", "NL", "J_ROUTES", "NL", "FE", "NL", "PROSE">>>>,
      <<<<"J_NULL">>>>,
      <<<<"J_OBJ">>>>,
      <<<<"J_ARR">>>>,
      <<<<"PROSE">>>>,
      <<<<"FJ", "J_ROUTES">>>>,
      <<<<>>>> }

\* failures of a completion: the provider's APIError carries the HTTP
\* status of its answer (server error, model not found, permission denied,
\* throttled)
CompletionErrors ==
    {ServerError, Err(404, FALSE, <<>>), Err(403, FALSE, <<>>), Err(429, TRUE, <<>>)}

NextPost ==
    \/ POST_Receive(TRUE, TRUE, PlainUrl, FALSE)
    \/ POST_CacheCheck
    \/ \E f \in Fetches : POST_GitHub(f)
    \/ \E oa \in {Ok(c) : c \in ArchitectureContents} \cup {Fail(e) : e \in CompletionErrors},
          orr \in {Ok(c) : c \in RoutesContents} \cup {Fail(e) : e \in CompletionErrors} :
          POST_LLM(oa, orr)
    \/ POST_Save

SpecPost == Init /\ [][NextPost]_vars

\* ------------------------------------------------------------------------
\* Step E on its own: a trace with markers, the files fetched for the call
\* and the stored key files are given, the markers are resolved.
\* ------------------------------------------------------------------------
\* a file longer than any default window, and a short one
LongFile == MaxStart + SnippetWindow + 2
ShortFile == 2

MarkerPaths == {"src/a.ts", "lib/b.py", "gone.go"}
MarkerEnds == {<<>>} \cup {<<e>> : e \in 0..(MaxStart + 1)} \cup {<<LongFile + 5>>}

Traces ==
    {<<TextItem, MarkerItem(p, st, e), TextItem, MarkerItem("gone.go", 1, <<>>)>> :
        p \in MarkerPaths, st \in 0..MaxStart, e \in MarkerEnds}
FullFileSets ==
    {<<>>, <<File("src/a.ts", "full", LongFile)>>,
     <<File("lib/b.py", "full", ShortFile), File("src/a.ts", "full", LongFile)>>}
KeyFileSets ==
    {<<>>, <<File("src/a.ts", "key", LongFile)>>, <<File("lib/b.py", "key", ShortFile)>>}

InitMarkers ==
    /\ RepositoryAnalysis = <<>>
    /\ RouteCache = <<>>
    /\ now = 0
    /\ pc = "idle"
    /\ req = NoReq
    /\ loc = NoLoc
    /\ rl = RlIdle
    /\ resp = <<>>
    /\ calls = NoCalls
    /\ pre = [repo |-> <<>>, route |-> <<>>]
    /\ nz = NoNz /\ ord = NoOrd /\ race = NoRace /\ page = NoPage /\ db = NoDb
    /\ mk \in {[trace |-> t, fullFiles |-> f, keyFileContents |-> k, out |-> <<>>] :
                  t \in Traces, f \in FullFileSets, k \in KeyFileSets}

\* lines 159-183: result.executionTrace = result.executionTrace.replace(...)
ResolveMarkers ==
    /\ mk.trace # <<>> /\ mk.out = <<>>
    /\ mk' = [mk EXCEPT !.out = <<resolveTrace(mk.trace, mk.fullFiles, mk.keyFileContents)>>]
    /\ UNCHANGED <<RepositoryAnalysis, RouteCache, now, handlers, nz, ord, race, page, db>>

NextMarkers == ResolveMarkers

SpecMarkers == InitMarkers /\ [][NextMarkers]_vars

\* ------------------------------------------------------------------------
\* Identity derivation on its own: a URL is parsed and normalized as POST
\* does (analyze/route.ts lines 55-69), and the normalized form is given
\* back as the URL of a later request and parsed again.
\* ------------------------------------------------------------------------
\* URL strings offered: github.com and another host; an owner; a repository
\* segment that is a name, a name with ".git" suffixes (one more than the
\* handlers above are offered) or ".git" alone; a further path segment or
\* none; a trailing slash or none; and paths of one segment
UrlInputs ==
    {Url(h, <<Seg("o", og), Seg(n, g)>> \o more, sl) :
        h \in {"github.com", "gitlab.com"}, og \in 0..1, n \in {"r", ""},
        g \in 0..(MaxGits + 1), more \in {<<>>, <<Seg("tree", 0)>>}, sl \in BOOLEAN}
    \cup {Url(h, <<Seg("o", 0)>>, sl) : h \in {"github.com", "gitlab.com"}, sl \in BOOLEAN}

InitUrl ==
    /\ RepositoryAnalysis = <<>>
    /\ RouteCache = <<>>
    /\ now = 0
    /\ pc = "idle"
    /\ req = NoReq
    /\ loc = NoLoc
    /\ rl = RlIdle
    /\ resp = <<>>
    /\ calls = NoCalls
    /\ pre = [repo |-> <<>>, route |-> <<>>]
    /\ mk = NoRun /\ ord = NoOrd /\ race = NoRace /\ page = NoPage /\ db = NoDb
    /\ nz \in {[NoNz EXCEPT !.url = u, !.stage = "given"] : u \in UrlInputs}

\* analyze/route.ts lines 55-69: parse, reject or build the normalized URL
Normalize ==
    /\ nz.stage = "given"
    /\ LET parsed == parseGitHubUrl(nz.url)
       IN nz' = IF parsed = <<>>
                THEN [nz EXCEPT !.stage = "rejected"]
                ELSE [nz EXCEPT !.stage = "normalized", !.first = parsed,
                                !.normalized = <<normalizedUrl(parsed[1].owner,
                                                               parsed[1].repo)>>]
    /\ UNCHANGED <<RepositoryAnalysis, RouteCache, now, handlers, mk, ord, race, page, db>>

\* analyze/route.ts line 55 on a request that carries the normalized URL
Reparse ==
    /\ nz.stage = "normalized"
    /\ nz' = [nz EXCEPT !.stage = "reparsed", !.second = parseGitHubUrl(nz.normalized[1])]
    /\ UNCHANGED <<RepositoryAnalysis, RouteCache, now, handlers, mk, ord, race, page, db>>

NextUrl == Normalize \/ Reparse

SpecUrl == InitUrl /\ [][NextUrl]_vars

\* ------------------------------------------------------------------------
\* Two requests served at the same time, both for the repository PlainUrl
\* and the route "/a".  A handler is suspended at every await; between two
\* awaits it runs alone.  The steps are those of the handlers above with
\* Steps A-E of the route handler, and the assembly and the two LLM passes
\* of POST, taken as one computation each.  findOne and findOneAndUpdate are
\* single-document operations of the store and take effect at once; both
\* collections have a unique index on the key (RepositoryAnalysis.ts line
\* 137, RouteCache.ts line 33).
\* ------------------------------------------------------------------------
ConcRepoKey == [repoUrl |-> normalizedUrl(parseGitHubUrl(PlainUrl)[1].owner,
                                          parseGitHubUrl(PlainUrl)[1].repo)]
ConcRouteKey == [repoUrl |-> PlainUrl, route |-> "/a"]

ConcVars == <<now, handlers, mk, nz, ord, page, db>>

\* analyze/route.ts lines 34-69, analyze-route/route.ts lines 65-81
Conc_Receive(p, handler, force) ==
    /\ race.procs[p].pc \in {"idle", "done"}
    /\ now < MaxClock
    /\ race' = [race EXCEPT !.procs[p] =
                    [NoProc EXCEPT !.handler = handler, !.force = force, !.pc = "cache"]]
    /\ UNCHANGED <<RepositoryAnalysis, RouteCache, ConcVars>>

\* analyze/route.ts lines 71-76, analyze-route/route.ts lines 83-99
Conc_CacheCheck(p) ==
    LET me == race.procs[p]
        hit == IF me.handler = "POST"
               THEN findOne(RepositoryAnalysis, ConcRepoKey) # <<>>
               ELSE CacheHit(findOne(RouteCache, ConcRouteKey))
    IN /\ me.pc = "cache"
       /\ race' = [race EXCEPT !.procs[p] =
                      IF ~me.force /\ hit
                      THEN [me EXCEPT !.pc = "done", !.tag = "cached"]
                      ELSE [me EXCEPT !.pc = IF me.handler = "POST"
                                            THEN "compute" ELSE "repo"]]
       /\ UNCHANGED <<RepositoryAnalysis, RouteCache, ConcVars>>

\* analyze-route/route.ts lines 101-107
Conc_LoadRepo(p) ==
    LET me == race.procs[p]
        repoDoc == findOne(RepositoryAnalysis, [repoUrl |-> PlainUrl])
    IN /\ me.pc = "repo"
       /\ race' = [race EXCEPT !.procs[p] =
                      IF repoDoc = <<>>
                      THEN [me EXCEPT !.pc = "done", !.tag = "notAnalyzedYet"]
                      ELSE [me EXCEPT !.pc = "compute", !.repoDoc = repoDoc]]
       /\ UNCHANGED <<RepositoryAnalysis, RouteCache, ConcVars>>

\* analyze/route.ts lines 78-107: the assembly and the two LLM passes;
\* analyze-route/route.ts lines 109-183: Steps A-E with the stored key
\* files.  o is the outcome of the LLM work: the answer's text or a failure.
Conc_Compute(p, o) ==
    LET me == race.procs[p]
        trace == analyzeSpecificRoute(o.value)
        architecture == analyzeArchitecture(<<o.value>>)
    IN /\ me.pc = "compute"
       /\ race' = [race EXCEPT !.procs[p] =
            IF ~o.ok THEN [me EXCEPT !.pc = "done", !.tag = "error"]
            ELSE IF me.handler = "POST"
            THEN [me EXCEPT !.pc = "save",
                            !.computed =
                       <<[evidence |-> assembleEvidence(AllFetched),
                          llmAnalysis |->
                              [overallFlow |-> getProperty(architecture, "overallFlow").value,
                               architectureMermaid |->
                                   getProperty(architecture, "architectureMermaid").value,
                               routes |-> analyzeRoutes(<<<<"J_ROUTES">>>>)]]>>]
            ELSE [me EXCEPT !.pc = "save",
                            !.computed =
                       <<[flowVisualization |-> trace.flowVisualization,
                          executionTrace |->
                              resolveMarkers(trace.executionTrace,
                                             me.repoDoc[1].keyFileContents,
                                             me.repoDoc[1].keyFileContents)]>>]]
       /\ UNCHANGED <<RepositoryAnalysis, RouteCache, ConcVars>>

\* an update document that leaves the stored LLM analysis alone (mutation)
ConcRepoUpdate_keepAnalysis(c, t) ==
    [repoUrl |-> ConcRepoKey.repoUrl,
     owner |-> parseGitHubUrl(PlainUrl)[1].owner,
     repoName |-> parseGitHubUrl(PlainUrl)[1].repo,
     metadata |-> c.evidence.metadata,
     commits |-> c.evidence.commits,
     contributors |-> c.evidence.contributors,
     repoStatus |-> c.evidence.repoStatus,
     techStack |-> c.evidence.techStack,
     fileTree |-> c.evidence.fileTree,
     keyFileContents |-> c.evidence.keyFileContents,
     analyzedAt |-> t]

\* analyze/route.ts lines 112-129: the update document of POST
ConcRepoUpdate(c, t) ==
    [repoUrl |-> ConcRepoKey.repoUrl,
     owner |-> parseGitHubUrl(PlainUrl)[1].owner,
     repoName |-> parseGitHubUrl(PlainUrl)[1].repo,
     metadata |-> c.evidence.metadata,
     commits |-> c.evidence.commits,
     contributors |-> c.evidence.contributors,
     repoStatus |-> c.evidence.repoStatus,
     techStack |-> c.evidence.techStack,
     fileTree |-> c.evidence.fileTree,
     keyFileContents |-> c.evidence.keyFileContents,
     llmAnalysis |-> c.llmAnalysis,
     analyzedAt |-> t]

\* analyze-route/route.ts lines 190-200: the update document of GET
ConcRouteUpdate(c, t) ==
    [repoUrl |-> ConcRouteKey.repoUrl,
     route |-> ConcRouteKey.route,
     flowVisualization |-> c.flowVisualization,
     executionTrace |-> c.executionTrace,
     cachedAt |-> t]

\* analyze/route.ts lines 112-136, analyze-route/route.ts lines 185-203:
\* the upsert and the answer
Conc_Save(p) ==
    LET me == race.procs[p]
        update == IF me.handler = "POST" THEN ConcRepoUpdate(me.computed[1], now)
                  ELSE ConcRouteUpdate(me.computed[1], now)
        written == [payload |-> me.computed[1], at |-> now]
    IN /\ me.pc = "save"
       /\ IF me.handler = "POST"
          THEN /\ RepositoryAnalysis' =
                      findOneAndUpdate(RepositoryAnalysis, ConcRepoKey, update)
               /\ UNCHANGED RouteCache
          ELSE /\ RouteCache' = findOneAndUpdate(RouteCache, ConcRouteKey, update)
               /\ UNCHANGED RepositoryAnalysis
       /\ now' = now + 1
       /\ race' = [race EXCEPT !.procs[p] = [me EXCEPT !.pc = "done", !.tag = "fresh",
                                                       !.wrote = <<written>>],
                               !.lastRepo = IF me.handler = "POST" THEN <<written>> ELSE @,
                               !.lastRoute = IF me.handler = "GET" THEN <<written>> ELSE @]
       /\ UNCHANGED <<handlers, mk, nz, ord, page, db>>

\* answers of the model offered to the two requests
ConcAnswers == {<<"J_ARCH">>, <<"PROSE">>}
ConcTraces == SomeTraceTexts \cup {<<"FH", "NL", "G", "NL", "TH", "NL", "T">>}

NextRace ==
    \/ \E p \in 1..2, h \in {"POST", "GET"}, f \in BOOLEAN : Conc_Receive(p, h, f)
    \/ \E p \in 1..2 : Conc_CacheCheck(p)
    \/ \E p \in 1..2 : Conc_LoadRepo(p)
    \/ \E p \in 1..2 :
          \E o \in {Ok(v) : v \in IF race.procs[p].handler = "POST"
                                  THEN ConcAnswers ELSE ConcTraces}
                   \cup {Fail(ServerError)} :
             Conc_Compute(p, o)
    \/ \E p \in 1..2 : Conc_Save(p)

SpecRace == Init /\ [][NextRace]_vars

\* ------------------------------------------------------------------------
\* One full-repository analysis, sub-operation by sub-operation
\* (analyze/route.ts lines 78-159).  A sub-operation that was called runs
\* until it settles, whatever the handler does meanwhile; the handler
\* resumes where it awaits.
\* ------------------------------------------------------------------------
OrdVars == <<RepositoryAnalysis, RouteCache, now, handlers, mk, nz, race, page, db>>

\* the sub-operations whose promise can reject: the fetchers that throw
\* (lib/github.ts), the two LLM passes, the store write
CanReject == {"getRepoMetadata", "getCommits", "getContributors"} \cup FanOut2
                \cup {"findOneAndUpdate"}

\* a handler that asks for the tree of "main" along with the metadata
\* (mutation)
Ord_Begin_treeAtOnce ==
    /\ ord.pc = "idle"
    /\ ord' = [pc |-> "all1",
               st |-> [op \in Ops |-> IF op \in FanOut1 \cup {"getFileTree"}
                                      THEN "running" ELSE "idle"]]
    /\ UNCHANGED OrdVars

\* lines 82-88: the five fetchers are called, then Promise.all is awaited
Ord_Begin ==
    /\ ord.pc = "idle"
    /\ ord' = [pc |-> "all1",
               st |-> [op \in Ops |-> IF op \in FanOut1 THEN "running" ELSE "idle"]]
    /\ UNCHANGED OrdVars

\* a sub-operation that was called settles
Ord_Settle(op, fulfilled) ==
    /\ ord.st[op] = "running"
    /\ fulfilled \/ op \in CanReject
    /\ ord' = [ord EXCEPT !.st[op] = IF fulfilled THEN "ok" ELSE "failed"]
    /\ UNCHANGED OrdVars

\* lines 82-92: Promise.all has rejected (catch block), or all five have
\* fulfilled and getFileTree is called with metadata.defaultBranch
Ord_AfterFetchers ==
    /\ ord.pc = "all1"
    /\ IF \E op \in FanOut1 : ord.st[op] = "failed"
       THEN ord' = [ord EXCEPT !.pc = "failed"]
       ELSE /\ \A op \in FanOut1 : ord.st[op] = "ok"
            /\ ord' = [ord EXCEPT !.pc = "tree", !.st["getFileTree"] = "running"]
    /\ UNCHANGED OrdVars

\* lines 92-93: getFileTree has returned, getKeyFileContents is called
Ord_AfterTree ==
    /\ ord.pc = "tree" /\ ord.st["getFileTree"] = "ok"
    /\ ord' = [ord EXCEPT !.pc = "keys", !.st["getKeyFileContents"] = "running"]
    /\ UNCHANGED OrdVars

\* lines 93-99: getKeyFileContents has returned, the two LLM passes are
\* called and Promise.all is awaited
Ord_AfterKeyFiles ==
    /\ ord.pc = "keys" /\ ord.st["getKeyFileContents"] = "ok"
    /\ ord' = [ord EXCEPT !.pc = "all2",
                          !.st["analyzeArchitecture"] = "running",
                          !.st["analyzeRoutes"] = "running"]
    /\ UNCHANGED OrdVars

\* lines 96-129: Promise.all has rejected (catch block), or both passes
\* have fulfilled and findOneAndUpdate is called
Ord_AfterLLM ==
    /\ ord.pc = "all2"
    /\ IF \E op \in FanOut2 : ord.st[op] = "failed"
       THEN ord' = [ord EXCEPT !.pc = "failed"]
       ELSE /\ \A op \in FanOut2 : ord.st[op] = "ok"
            /\ ord' = [ord EXCEPT !.pc = "write", !.st["findOneAndUpdate"] = "running"]
    /\ UNCHANGED OrdVars

\* lines 112-159: the write has settled: the answer, or the catch block
Ord_AfterWrite ==
    /\ ord.pc = "write" /\ ord.st["findOneAndUpdate"] \in {"ok", "failed"}
    /\ ord' = [ord EXCEPT !.pc = IF ord.st["findOneAndUpdate"] = "ok"
                                 THEN "done" ELSE "failed"]
    /\ UNCHANGED OrdVars

NextOrder ==
    \/ Ord_Begin
    \/ \E op \in Ops, fulfilled \in BOOLEAN : Ord_Settle(op, fulfilled)
    \/ Ord_AfterFetchers
    \/ Ord_AfterTree
    \/ Ord_AfterKeyFiles
    \/ Ord_AfterLLM
    \/ Ord_AfterWrite

SpecOrder == Init /\ [][NextOrder]_vars

\* ------------------------------------------------------------------------
\* The route-analysis page (page.tsx AnalyzeRouteContent, lines 226-322).
\* The outcome of `fetch` and `response.json()`: the request failed on the
\* network, the body is not JSON, or a status and a JSON body.  A body is
\* its `error` (<<>> when absent), its `rateLimitExceeded`, its `data`
\* (<<>> when absent) and its `fromCache`.
\* ------------------------------------------------------------------------
Body(error, rle, data, fromCache) ==
    [error |-> error, rateLimitExceeded |-> rle, data |-> data, fromCache |-> fromCache]
Outcome(kind, status, body) == [kind |-> kind, status |-> status, body |-> body]
NoBody == Body(<<>>, FALSE, <<>>, FALSE)

\* what the route handler answers (analyze-route/route.ts), what the
\* platform in front of it answers (a timeout page), and a failed request
Outcomes ==
    {Outcome("json", 200, Body(<<>>, FALSE, <<d>>, c)) :
        d \in {"traceString", "traceArray"}, c \in BOOLEAN}
    \cup {Outcome("json", st, Body(e, FALSE, <<>>, FALSE)) :
            st \in {400, 401, 404, 500}, e \in {<<>>, <<"message">>}}
    \cup {Outcome("json", 402, Body(<<>>, TRUE, <<>>, FALSE))}
    \cup {Outcome("notJson", st, NoBody) : st \in {200, 500, 504}}
    \cup {Outcome("network", 0, NoBody)}

PageVars == <<RepositoryAnalysis, RouteCache, now, handlers, mk, nz, ord, race, db>>

InitPage ==
    /\ RepositoryAnalysis = <<>>
    /\ RouteCache = <<>>
    /\ now = 0
    /\ pc = "idle"
    /\ req = NoReq
    /\ loc = NoLoc
    /\ rl = RlIdle
    /\ resp = <<>>
    /\ calls = NoCalls
    /\ pre = [repo |-> <<>>, route |-> <<>>]
    /\ mk = NoRun /\ nz = NoNz /\ ord = NoOrd /\ race = NoRace /\ db = NoDb
    /\ page \in {[NoPage EXCEPT !.pc = "mounted", !.repoUrl = u, !.route = r,
                                 !.routeIndex = i] :
                    u \in BOOLEAN, r \in BOOLEAN, i \in {"0", "1", "2"}}

\* lines 240-253 and 291-293: the effect calls fetchAnalysis(false), which
\* gives up on a missing parameter or sends the request
useEffect ==
    /\ page.pc = "mounted"
    /\ page' = IF ~page.repoUrl \/ ~page.route
               THEN [page EXCEPT !.pc = "settled", !.error = <<"missingParameter">>,
                                 !.loading = FALSE]
               ELSE [page EXCEPT !.pc = "fetching", !.forceReload = FALSE]
    /\ UNCHANGED PageVars

\* response.ok
responseOk(status) == status >= 200 /\ status <= 299

\* lines 253-288: what fetchAnalysis does with the outcome of its request
fetchAnalysis(o) ==
    /\ page.pc = "fetching"
    /\ LET settled == [page EXCEPT !.pc = "settled", !.last = <<o>>,
                                   !.loading = FALSE, !.reloading = FALSE]
       IN page' =
            IF o.kind # "json"
            THEN [settled EXCEPT !.rateLimitExceeded = TRUE, !.result = <<>>,
                                 !.error = <<>>]
            ELSE IF o.status = 401 \/ o.status = 404
            THEN [settled EXCEPT !.error = IF o.body.error # <<>> THEN o.body.error
                                          ELSE <<"Request failed.">>]
            ELSE IF o.status = 402 \/ ~responseOk(o.status)
            THEN [settled EXCEPT !.rateLimitExceeded = TRUE, !.result = <<>>,
                                 !.error = <<>>]
            ELSE [settled EXCEPT !.result = o.body.data,
                                 !.fromCache = o.body.fromCache,
                                 !.error = <<>>, !.rateLimitExceeded = FALSE]
    /\ UNCHANGED PageVars

\* lines 308 and 350-352: the Force Reload button is rendered
ReloadOffered == ~(page.loading \/ page.reloading) /\ page.result # <<>>

\* lines 295-301: the click on Force Reload
handleForceReload ==
    /\ page.pc = "settled" /\ ReloadOffered
    /\ page' = [page EXCEPT !.pc = "fetching", !.forceReload = TRUE,
                            !.reloading = TRUE, !.result = <<>>, !.error = <<>>,
                            !.rateLimitExceeded = FALSE, !.last = <<>>]
    /\ UNCHANGED PageVars

NextPage ==
    \/ useEffect
    \/ \E o \in Outcomes : fetchAnalysis(o)
    \/ handleForceReload

SpecPage == InitPage /\ [][NextPage]_vars

\* ------------------------------------------------------------------------
\* lib/mongodb.ts connectDB with several callers.  A call runs without
\* interruption up to its await (lines 29-50).  When the awaited promise
\* settles, the continuations of the callers awaiting it are queued
\* together, in order of arrival, and run before any other task; each runs
\* lines 50-59 without interruption.
\* ------------------------------------------------------------------------
DbVars == <<RepositoryAnalysis, RouteCache, now, handlers, mk, nz, ord, race, page>>

\* lines 29-50: return the cached connection, or start an attempt if none
\* is kept in cached.promise, and await cached.promise
connectDB(c) ==
    /\ db.micro = <<>>
    /\ db.callers[c].pc # "awaiting"
    /\ IF db.conn # 0
       THEN db' = [db EXCEPT !.callers[c] = [pc |-> "returned", on |-> 0]]
       ELSE IF db.promise = 0
       THEN /\ Len(db.attempts) < MaxAttempts
            /\ db' = [db EXCEPT !.attempts = Append(@, "pending"),
                                !.promise = Len(db.attempts) + 1,
                                !.callers[c] = [pc |-> "awaiting",
                                                on |-> Len(db.attempts) + 1],
                                !.waiting = Append(@, c)]
       ELSE db' = [db EXCEPT !.callers[c] = [pc |-> "awaiting", on |-> db.promise],
                             !.waiting = IF db.attempts[db.promise] = "pending"
                                         THEN Append(@, c) ELSE @,
                             !.micro = IF db.attempts[db.promise] = "pending"
                                       THEN @ ELSE Append(@, c)]
    /\ UNCHANGED DbVars

\* line 43: the promise of mongoose.connect(...).then(...) settles; the
\* continuations of its awaiters are queued
settle(a, fulfilled) ==
    /\ db.micro = <<>>
    /\ a \in 1..Len(db.attempts) /\ db.attempts[a] = "pending"
    /\ db' = [db EXCEPT !.attempts[a] = IF fulfilled THEN "resolved" ELSE "rejected",
                        !.micro = SelectSeq(db.waiting, LAMBDA c : db.callers[c].on = a),
                        !.waiting = SelectSeq(db.waiting, LAMBDA c : db.callers[c].on # a)]
    /\ UNCHANGED DbVars

\* a catch block that keeps the rejected promise (mutation)
resume_keepPromise ==
    /\ db.micro # <<>>
    /\ LET c == Head(db.micro)
           a == db.callers[c].on
       IN db' = IF db.attempts[a] = "resolved"
                THEN [db EXCEPT !.conn = a, !.micro = Tail(@),
                                !.callers[c] = [pc |-> "returned", on |-> 0]]
                ELSE [db EXCEPT !.micro = Tail(@),
                                !.callers[c] = [pc |-> "threw", on |-> 0]]
    /\ UNCHANGED DbVars

\* lines 49-59: after the await: keep the connection and return it, or
\* clear cached.promise and rethrow
resume ==
    /\ db.micro # <<>>
    /\ LET c == Head(db.micro)
           a == db.callers[c].on
       IN db' = IF db.attempts[a] = "resolved"
                THEN [db EXCEPT !.conn = a, !.micro = Tail(@),
                                !.callers[c] = [pc |-> "returned", on |-> 0]]
                ELSE [db EXCEPT !.promise = 0, !.micro = Tail(@),
                                !.callers[c] = [pc |-> "threw", on |-> 0]]
    /\ UNCHANGED DbVars

NextDb ==
    \/ \E c \in Callers : connectDB(c)
    \/ \E a \in 1..MaxAttempts, fulfilled \in BOOLEAN : settle(a, fulfilled)
    \/ resume

SpecDb == Init /\ [][NextDb]_vars

\* ------------------------------------------------------------------------
\* Properties
\* ------------------------------------------------------------------------
\* the key POST derives from the request's URL
RequestKey == normalizedUrl(parseGitHubUrl(req.repoUrl)[1].owner,
                            parseGitHubUrl(req.repoUrl)[1].repo)

ValidPost ==
    /\ req.handler = "POST" /\ req.authed /\ req.bodyOk
    /\ parseGitHubUrl(req.repoUrl) # <<>>

\* C1: a POST /api/analyze request with forceRefresh=false for an identity
\* whose record is stored makes no source-host call, no LLM call and no store
\* write at any point of the request, and ends with status 200, cached:true
\* and the stored record as data.
C1_CachedRepositoryIsReturned ==
    (ValidPost /\ ~req.force
        /\ findOne(pre.repo, [repoUrl |-> RequestKey]) # <<>>)
    => /\ calls.github = 0 /\ calls.llm = 0
       /\ calls.repoWrites = 0 /\ calls.routeWrites = 0
       /\ RepositoryAnalysis = pre.repo /\ RouteCache = pre.route
       /\ pc \in {"p_cache", "done"}
       /\ pc = "done" =>
            resp = <<Resp(200, "cached:true",
                          findOne(pre.repo, [repoUrl |-> RequestKey]), <<>>)>>

\* C1 witness: a request whose URL is not in normalized form was answered
\* from the repository store
C1_Witness ==
    /\ pc = "done" /\ ValidPost /\ ~req.force
    /\ req.repoUrl # RequestKey
    /\ resp # <<>> /\ resp[1].tag = "cached:true" /\ resp[1].data # <<>>

\* C2: withRateLimitRetry never invokes the operation a third time, and a
\* throttling failure of the first attempt followed by a throttling failure
\* of the retry ends the call as exhausted after exactly two attempts.
C2_AtMostOneRetry ==
    /\ rl.attempts <= 2
    /\ (rl.attempts = 2 => rl.state \in {"returned", "threw", "exhausted"})
    /\ (/\ rl.attempts = 2 /\ rl.first # <<>> /\ rl.thrown # <<>>
        /\ rl.first[1].status = 429 /\ rl.thrown[1].status = 429)
       => rl.state = "exhausted"

\* C2 witness: first attempt and retry both throttled, the retry with an
\* hour-scale hint
C2_Witness ==
    /\ rl.attempts = 2 /\ rl.state = "exhausted"
    /\ rl.first # <<>> /\ rl.first[1].status = 429
    /\ rl.thrown = <<Err(429, TRUE, <<Tok(2, "h")>>)>>

\* the wait a hint asks for, in ms, read off the hint's tokens
HintedMs(h) ==
    IF Len(h) >= 2 /\ h[1].u = "m" /\ h[2].u = "s" THEN h[1].n * 60000 + h[2].n
    ELSE IF Len(h) >= 1 /\ h[1].u = "s" THEN h[1].n
    ELSE 0

RetriedOnce == rl.state = "waiting" \/ rl.attempts = 2

\* C3: after a throttling failure of the first attempt the call is classified
\* by the hint as the table says: hour-scale -> exhausted, no wait, no retry;
\* minutes+seconds above 12000 ms -> exhausted, no wait, no retry;
\* minutes+seconds of at most 12000 ms or seconds -> a wait of at least the
\* hinted time, then one retry; anything else (no hint, minutes only,
\* milliseconds) -> a wait of exactly 3000 ms, then one retry.
C3_ClassificationTable ==
    (rl.first # <<>> /\ rl.first[1].status = 429) =>
        LET h == rl.first[1].hint
            hour == Len(h) >= 1 /\ h[1].u = "h"
            minsec == Len(h) >= 2 /\ h[1].u = "m" /\ h[2].u = "s"
            sec == Len(h) >= 1 /\ h[1].u = "s"
        IN /\ hour => rl.state = "exhausted" /\ rl.attempts = 1 /\ rl.waits = <<>>
           /\ (minsec /\ HintedMs(h) > 12000)
                => rl.state = "exhausted" /\ rl.attempts = 1 /\ rl.waits = <<>>
           /\ ((minsec /\ HintedMs(h) <= 12000) \/ sec)
                => /\ Len(rl.waits) = 1 /\ rl.waits[1] >= HintedMs(h)
                   /\ RetriedOnce
           /\ (~hour /\ ~minsec /\ ~sec)
                => rl.waits = <<3000>> /\ RetriedOnce

\* C3 witness: "try again in 45s" waited at least 45000 ms and was retried
C3_Witness ==
    /\ rl.first = <<Err(429, TRUE, <<Tok(45000, "s")>>)>>
    /\ rl.attempts = 2 /\ Len(rl.waits) = 1 /\ rl.waits[1] >= 45000

\* C4: a route request whose rate-limit-protected call ended exhausted, in
\* particular after a throttled first attempt and a throttled retry, is
\* answered with status 402 and rateLimitExceeded, never with status 500.
C4_ExhaustedIsDistinct ==
    (pc = "done" /\ req.handler = "GET" /\ resp # <<>>) =>
        /\ rl.state = "exhausted"
             => resp[1].status = 402 /\ resp[1].tag = "rateLimitExceeded"
        /\ (/\ rl.attempts = 2 /\ rl.first # <<>> /\ rl.thrown # <<>>
            /\ rl.first[1].status = 429 /\ rl.thrown[1].status = 429)
             => resp[1].status = 402 /\ resp[1].tag = "rateLimitExceeded"

\* C4 witness: execution-trace synthesis was throttled twice (relevance
\* identification had succeeded before) and the answer is 402
C4_Witness ==
    /\ pc = "done" /\ req.handler = "GET" /\ resp # <<>>
    /\ resp[1].status = 402
    /\ rl.attempts = 2 /\ rl.first[1].status = 429 /\ rl.thrown[1].status = 429
    /\ calls.llm >= 3

\* C5: a first attempt that fails with an error other than the provider's
\* throttling answer is not waited for and not retried, and that same error
\* is rethrown as an ordinary failure.
C5_NonThrottlingNeverRetried ==
    (rl.first # <<>> /\ rl.first[1].status # 429) =>
        /\ rl.attempts = 1 /\ rl.waits = <<>>
        /\ rl.state = "threw" /\ rl.thrown = rl.first

\* a throttling answer the classifier would wait for and retry
Transient(e) == e.status = 429 /\ ~parseGroq429WaitMs(e.hint).threw

\* C6: at every LLM call site a transient throttling failure of the first
\* attempt is waited for and retried once; no request is failed with the
\* first transient throttling answer of a call.
C6_EveryCallSiteRetries ==
    /\ (rl.first # <<>> /\ Transient(rl.first[1]))
         => Len(rl.waits) = 1 /\ RetriedOnce
    /\ ~(/\ pc = "done" /\ req.handler = "POST" /\ resp # <<>>
         /\ resp[1].status >= 400 /\ resp[1].err # <<>>
         /\ Transient(resp[1].err[1])
         /\ calls.llm = 2)

UniqueKeys(coll, fields) ==
    \A i, j \in 1..Len(coll) :
        (\A f \in fields : coll[i][f] = coll[j][f]) => i = j

UpsertEffect(old, new, filter, update) ==
    /\ Cardinality(Matching(new, filter)) = 1
    /\ \A f \in DOMAIN update : new[Min(Matching(new, filter))][f] = update[f]
    /\ IF Matching(old, filter) # {}
       THEN /\ Len(new) = Len(old)
            /\ Matching(new, filter) = Matching(old, filter)
            /\ \A i \in 1..Len(old) : i \notin Matching(old, filter) => new[i] = old[i]
       ELSE /\ Len(new) = Len(old) + 1
            /\ SubSeq(new, 1, Len(old)) = old

\* C7: both stores keep at most one record per key; a write for a stored key
\* replaces that record's payload where it is and leaves the number of
\* records unchanged, a write for an absent key adds exactly one record.
C7_OneRecordPerKey ==
    [][/\ UniqueKeys(RepositoryAnalysis', {"repoUrl"})
       /\ UniqueKeys(RouteCache', {"repoUrl", "route"})
       /\ pc = "p_save" =>
            UpsertEffect(RepositoryAnalysis, RepositoryAnalysis',
                         [repoUrl |-> loc.normalizedUrl],
                         [repoUrl |-> loc.normalizedUrl, analyzedAt |-> now,
                          fileTree |-> loc.evidence[1].fileTree,
                          keyFileContents |-> loc.evidence[1].keyFileContents])
       /\ pc = "g_save" =>
            UpsertEffect(RouteCache, RouteCache',
                         [repoUrl |-> req.repoUrl, route |-> req.route],
                         [repoUrl |-> req.repoUrl, route |-> req.route,
                          flowVisualization |-> loc.result[1].flowVisualization,
                          cachedAt |-> now])]_vars

\* C7 witness: a stored repository record was overwritten by a later
\* analysis while a route record exists as well
C7_Witness ==
    /\ pc = "done" /\ req.handler = "POST" /\ calls.repoWrites = 1
    /\ pre.repo # <<>> /\ Len(RepositoryAnalysis) = Len(pre.repo)
    /\ RepositoryAnalysis # pre.repo
    /\ Len(RouteCache) >= 1

\* C8: while a POST /api/analyze request is served, forced refresh included,
\* the route cache stays what it was when the request arrived.
C8_RouteCacheUntouched ==
    req.handler = "POST" => RouteCache = pre.route

\* C8 witness: a forced refresh overwrote the repository record of a
\* repository that has a complete route record
C8_Witness ==
    /\ pc = "done" /\ ValidPost /\ req.force /\ calls.repoWrites = 1
    /\ findOne(pre.repo, [repoUrl |-> RequestKey]) # <<>>
    /\ \E i \in 1..Len(RouteCache) :
          /\ RouteCache[i].repoUrl = RequestKey
          /\ RouteCache[i].flowVisualization # <<>>
          /\ RouteCache[i].executionTrace # <<>>

RouteKey == [repoUrl |-> req.repoUrl, route |-> req.route]

\* C9: a route request is answered from the cache only when it is not forced
\* and the stored record has both fields non-empty; with a stored record that
\* has an empty field a non-forced request goes on to the repository lookup,
\* and when it succeeds the record is overwritten with the new result.
C9_PartialRecordIsAMiss ==
    (pc = "done" /\ req.handler = "GET" /\ resp # <<>>) =>
        LET c == findOne(pre.route, RouteKey)
        IN /\ resp[1].tag = "fromCache:true" =>
                /\ ~req.force /\ c # <<>>
                /\ c[1].flowVisualization # <<>> /\ c[1].executionTrace # <<>>
                /\ resp[1].data = <<[flowVisualization |-> c[1].flowVisualization,
                                     executionTrace |-> c[1].executionTrace]>>
           /\ (/\ resp[1].status \notin {400, 401} /\ ~req.force /\ c # <<>>
               /\ (c[1].flowVisualization = <<>> \/ c[1].executionTrace = <<>>))
              => /\ resp[1].tag # "fromCache:true"
                 /\ calls.repoReads = 1
                 /\ resp[1].status = 200 =>
                      /\ Len(RouteCache) = Len(pre.route)
                      /\ LET n == findOne(RouteCache, RouteKey)
                         IN /\ n # <<>>
                            /\ resp[1].data =
                                 <<[flowVisualization |-> n[1].flowVisualization,
                                    executionTrace |-> n[1].executionTrace]>>
                            /\ n[1].cachedAt > c[1].cachedAt

\* C9 witness: a non-forced request found a record with an empty field,
\* recomputed and overwrote it
C9_Witness ==
    /\ pc = "done" /\ req.handler = "GET" /\ ~req.force /\ resp # <<>>
    /\ resp[1].status = 200 /\ resp[1].tag = "fromCache:false"
    /\ LET c == findOne(pre.route, RouteKey)
       IN c # <<>> /\ (c[1].flowVisualization = <<>> \/ c[1].executionTrace = <<>>)

\* C10: every record of the route cache has a non-empty flowVisualization
\* and a non-empty executionTrace.
C10_RouteRecordsNonPartial ==
    \A i \in 1..Len(RouteCache) :
        RouteCache[i].flowVisualization # <<>> /\ RouteCache[i].executionTrace # <<>>

\* a route request that passed the session and parameter checks
ValidGet ==
    /\ req.handler = "GET" /\ req.authed
    /\ req.repoUrl # NoUrl /\ req.route # ""

\* the request is not answered from the route cache
RouteMiss == req.force \/ ~CacheHit(findOne(pre.route, RouteKey))

\* C11: a route request that misses the route cache while no repository
\* record is stored for its repoUrl makes no LLM call, no source-host call
\* and no write to either store at any point, and ends with status 404 and
\* the "Repository not analyzed yet" message, not with status 500.
C11_NotAnalyzedYet ==
    (ValidGet /\ RouteMiss /\ findOne(pre.repo, [repoUrl |-> req.repoUrl]) = <<>>)
    => /\ calls.llm = 0 /\ calls.github = 0
       /\ calls.repoWrites = 0 /\ calls.routeWrites = 0
       /\ RepositoryAnalysis = pre.repo /\ RouteCache = pre.route
       /\ pc \in {"g_cache", "g_repo", "done"}
       /\ pc = "done" => resp = <<NotAnalyzedYet>>

\* C11 witness: a route request read both stores, found no repository
\* record and was answered 404
C11_Witness ==
    /\ pc = "done" /\ ValidGet /\ ~req.force
    /\ calls.routeReads = 1 /\ calls.repoReads = 1
    /\ resp = <<NotAnalyzedYet>>

\* C12: a route request whose URL derives an (owner, name) for which a
\* repository record is stored never ends in the "not analyzed yet" answer,
\* whatever form of the URL it was given, and every route record is stored
\* under the identity's key.
C12_LookupsKeyedByIdentity ==
    /\ (/\ pc = "done" /\ ValidGet /\ parseGitHubUrl(req.repoUrl) # <<>>
        /\ findOne(pre.repo, [repoUrl |-> RequestKey]) # <<>>)
       => resp # <<NotAnalyzedYet>>
    /\ \A i \in 1..Len(RouteCache) :
          /\ parseGitHubUrl(RouteCache[i].repoUrl) # <<>>
          /\ RouteCache[i].repoUrl =
                normalizedUrl(parseGitHubUrl(RouteCache[i].repoUrl)[1].owner,
                              parseGitHubUrl(RouteCache[i].repoUrl)[1].repo)

\* the route handler took the key-file fallback of Step C: nothing was
\* identified, or nothing was fetched for what was identified
FellBack == loc.relevantPaths = <<>> \/ loc.fullFiles # loc.relevantPaths

\* C13: a route request whose relevance identification returned an empty
\* list, or whose fetch returned nothing, and whose execution-trace synthesis
\* returned, had the stored key files as codebase input and as marker
\* source, and ends with status 200, a route-cache write and a non-empty
\* execution trace.
C13_FallbackCompletes ==
    (pc = "done" /\ ValidGet /\ loc.result # <<>> /\ FellBack)
    => /\ loc.codebaseStr = loc.repoDoc[1].keyFileContents
       /\ loc.fullFiles = loc.repoDoc[1].keyFileContents
       /\ resp # <<>> /\ resp[1].status = 200
       /\ calls.routeWrites = 1
       /\ resp[1].data[1].executionTrace # <<>>

\* the source-host outcomes behind the current request's assembly
Fetched == loc.fetch[1]

\* C14: in a POST /api/analyze request whose metadata fetch succeeded, a
\* failure of the commit listing, the contributor listing, the repo status,
\* the tech-stack detection, the file tree or the key-file reads leaves the
\* request running: the evidence is assembled with the failed part at its
\* default, the request is not answered before both LLM passes were called,
\* and a 200 answer comes with a store write.
C14_SecondaryFailuresDegrade ==
    (req.handler = "POST" /\ loc.fetch # <<>> /\ Fetched.metadata.ok) =>
        /\ loc.evidence # <<>>
        /\ ~Fetched.commits.ok => loc.evidence[1].commits = <<>>
        /\ ~Fetched.contributors.ok => loc.evidence[1].contributors = <<>>
        /\ ~Fetched.status.ok => loc.evidence[1].repoStatus = <<"zeroStatus">>
        /\ ~Fetched.techStack.ok => loc.evidence[1].techStack = <<"nullTechStack">>
        /\ ~Fetched.tree.ok => loc.evidence[1].fileTree = <<>>
        /\ ~Fetched.keyFiles.ok => loc.evidence[1].keyFileContents = <<>>
        /\ pc = "done" => calls.llm = 2
        /\ (pc = "done" /\ resp[1].status = 200) => calls.repoWrites = 1

NoCoreCall ==
    /\ calls = NoCalls
    /\ RepositoryAnalysis = pre.repo /\ RouteCache = pre.route

C17_MalformedOutputNeverFails ==
    (/\ req.handler = "POST" /\ loc.answers # <<>>
     /\ loc.answers[1].ok /\ loc.answers[2].ok)
    => /\ pc \in {"p_save", "done"}
       /\ loc.result # <<>>
       /\ pc = "done" => resp[1].status = 200 /\ calls.repoWrites = 1
       /\ (loc.answers[2].value # <<>> /\ extractJSON(loc.answers[2].value[1]).threw)
            => /\ loc.result[1].routes = FallbackRoutes
               /\ Len(loc.result[1].routes.v) >= 1

\* C18: every LLM request of the current request, retries included, went
\* out with the client of its call type: relevance identification with
\* groq1 for an even routeIndex and groq2 for an odd one, never groqMain;
\* architecture, route catalog and execution trace with groqMain.
C18_ClientByCallType ==
    \A u \in calls.clients :
        /\ u[1] = "identify" =>
             /\ u[2] = (IF req.routeIndex % 2 = 0 THEN "groq1" ELSE "groq2")
             /\ u[2] # "groqMain"
        /\ u[1] \in {"architecture", "routes", "trace"} => u[2] = "groqMain"

\* C18 witness: for the route at position 1 relevance identification was
\* throttled and retried, then the execution trace was asked for
C18_Witness ==
    /\ req.handler = "GET" /\ req.routeIndex = 1
    /\ pc = "g_save" /\ calls.llm >= 3
    /\ calls.clients = {<<"identify", "groq2">>, <<"trace", "groqMain">>}

\* lines is exactly the lines numbered a..b (1-based, inclusive) that the
\* content has, in order
IsLines(lines, content, a, b) ==
    LET idx == {n \in 1..Len(content) : a <= n /\ n <= b}
    IN /\ Len(lines) = Cardinality(idx)
       /\ \A k \in 1..Len(lines) : lines[k] = content[Min(idx) + k - 1]

\* the content a marker's path names: that of the fetched file if there is
\* one, else that of the stored key file; <<>> when neither set has the path
NamedContent(m) ==
    LET inFull == {k \in 1..Len(mk.fullFiles) : mk.fullFiles[k].path = m.path}
        inKey == {k \in 1..Len(mk.keyFileContents) : mk.keyFileContents[k].path = m.path}
    IN IF inFull # {} THEN <<mk.fullFiles[Min(inFull)].content>>
       ELSE IF inKey # {} THEN <<mk.keyFileContents[Min(inKey)].content>>
       ELSE <<>>

\* C19: in a resolved trace every item of the trace has its place; text is
\* unchanged; a marker whose path is in neither file set became the "File
\* not found" block naming the path; a marker path:start-end whose path is
\* in the fetched files, or else in the key files, became a snippet of
\* exactly the lines start..end (1-based, inclusive) of that file.
C19_MarkersResolveToExactLines ==
    mk.out # <<>> =>
        /\ Len(mk.out[1]) = Len(mk.trace)
        /\ \A i \in 1..Len(mk.trace) :
              LET m == mk.trace[i]
                  o == mk.out[1][i]
              IN IF m.kind # "marker" THEN o = m
                 ELSE IF NamedContent(m) = <<>>
                      THEN o.kind = "notFound" /\ o.path = m.path
                      ELSE /\ o.kind = "snippet"
                           /\ m.end # <<>> =>
                                IsLines(o.lines, NamedContent(m)[1], m.start, m.end[1])

\* C19 witness: <<<FILE:src/a.ts:2-3>>> with src/a.ts both fetched and
\* among the key files resolved to lines 2 and 3 of the fetched file, and
\* the marker of the absent file to the "File not found" block
C19_Witness ==
    /\ mk.out # <<>>
    /\ mk.trace[2] = MarkerItem("src/a.ts", 2, <<3>>)
    /\ find(mk.fullFiles, "src/a.ts") # <<>> /\ find(mk.keyFileContents, "src/a.ts") # <<>>
    /\ mk.out[1][2] = SnippetItem("typescript", <<Line("full", 2), Line("full", 3)>>)
    /\ mk.out[1][4] = NotFoundItem("gone.go")

\* C20: a marker path:start without end, naming a file that is found,
\* became a snippet of exactly the lines start..start+30 (1-based,
\* inclusive) that the file has.
C20_DefaultEndIsStartPlus30 ==
    mk.out # <<>> =>
        \A i \in 1..Len(mk.trace) :
            LET m == mk.trace[i]
            IN (m.kind = "marker" /\ m.end = <<>> /\ NamedContent(m) # <<>>)
               => IsLines(mk.out[1][i].lines, NamedContent(m)[1], m.start, m.start + 30)

\* C21: whenever a URL was accepted, normalized and the normalized form
\* parsed again, the second parse accepts it and yields the same owner and
\* repository as the first, also for a repository segment that still ends in
\* ".git" after one suffix was stripped.
C21_NormalizationIdempotent ==
    nz.stage = "reparsed" => nz.second = nz.first

\* every source-host call behind the current request's assembly succeeded
AllFetchesOk ==
    /\ loc.fetch # <<>>
    /\ \A k \in DOMAIN Fetched : Fetched[k].ok

\* both completions of the current request returned an answer
BothAnswered == loc.answers # <<>> /\ loc.answers[1].ok /\ loc.answers[2].ok

\* C22: a POST /api/analyze request with forceRefresh=false for an identity
\* without a stored record, whose source-host calls all succeeded and whose
\* two completions both returned, has made one evidence assembly and each of
\* the two LLM analyses once, goes on to the store write, and ends with
\* exactly one repository-store write, one record more in the store, and
\* status 200, cached:false with the written record as data.
C22_FreshAnalysisRunsOnce ==
    (/\ ValidPost /\ ~req.force
     /\ findOne(pre.repo, [repoUrl |-> RequestKey]) = <<>>
     /\ AllFetchesOk /\ BothAnswered)
    => /\ pc \in {"p_save", "done"}
       /\ calls.github = 1 /\ calls.llm = 2
       /\ calls.clients = {<<"architecture", "groqMain">>, <<"routes", "groqMain">>}
       /\ pc = "done" =>
            /\ calls.repoWrites = 1
            /\ Len(RepositoryAnalysis) = Len(pre.repo) + 1
            /\ resp = <<Resp(200, "cached:false",
                             findOne(RepositoryAnalysis, [repoUrl |-> RequestKey]), <<>>)>>
            /\ resp[1].data # <<>>

\* the repository record that holds exactly what one request wrote
WholeRepoRecord(w) ==
    [repoUrl |-> ConcRepoKey.repoUrl,
     owner |-> Seg("o", 0), repoName |-> Seg("r", 0),
     metadata |-> w.payload.evidence.metadata,
     commits |-> w.payload.evidence.commits,
     contributors |-> w.payload.evidence.contributors,
     repoStatus |-> w.payload.evidence.repoStatus,
     techStack |-> w.payload.evidence.techStack,
     fileTree |-> w.payload.evidence.fileTree,
     keyFileContents |-> w.payload.evidence.keyFileContents,
     llmAnalysis |-> w.payload.llmAnalysis,
     analyzedAt |-> w.at]

\* the route record that holds exactly what one request wrote
WholeRouteRecord(w) ==
    [repoUrl |-> PlainUrl, route |-> "/a",
     flowVisualization |-> w.payload.flowVisualization,
     executionTrace |-> w.payload.executionTrace,
     cachedAt |-> w.at]

\* C23: with two requests for the same repository and route served at the
\* same time, in every state each store holds at most one record for the
\* key, and that record is, field by field, what the request that wrote
\* last has computed and stamped: never fields of two requests, and no
\* record before the first write.
C23_LastWriteWinsWhole ==
    /\ Len(RepositoryAnalysis) <= 1 /\ Len(RouteCache) <= 1
    /\ findOne(RepositoryAnalysis, ConcRepoKey) =
          (IF race.lastRepo = <<>> THEN <<>> ELSE <<WholeRepoRecord(race.lastRepo[1])>>)
    /\ findOne(RouteCache, ConcRouteKey) =
          (IF race.lastRoute = <<>> THEN <<>> ELSE <<WholeRouteRecord(race.lastRoute[1])>>)

\* C23 witness: two POST requests without forceRefresh both missed the
\* cache, both computed, with different LLM analyses, and both wrote; the
\* record is that of the request that wrote later, over a stored record
\* that was the other request's
C23_Witness ==
    \E p, q \in 1..2 :
        /\ p # q
        /\ \A k \in {p, q} : /\ race.procs[k].handler = "POST" /\ ~race.procs[k].force
                              /\ race.procs[k].pc = "done" /\ race.procs[k].wrote # <<>>
        /\ race.procs[p].wrote[1].at < race.procs[q].wrote[1].at
        /\ race.procs[p].wrote[1].payload.llmAnalysis
             # race.procs[q].wrote[1].payload.llmAnalysis
        /\ RepositoryAnalysis = <<WholeRepoRecord(race.procs[q].wrote[1])>>

\* C24: a POST /api/analyze request with forceRefresh=true never reads the
\* repository store and is never answered cached:true; it always goes to the
\* evidence assembly, and when it ends with status 200 it has made both LLM
\* analyses and one write, the record of its key is the one it wrote, newer
\* than any it replaced, and the answer is cached:false with that record.
\* A route request with forceReload=true never reads the route cache and is
\* never answered fromCache:true; with a complete record stored for its key
\* it still makes LLM calls, and when it ends with status 200 it has written
\* the route record once and answers fromCache:false with what it wrote.
C24_BypassNeverReadsCache ==
    /\ (ValidPost /\ req.force) =>
         /\ calls.repoReads = 0
         /\ resp # <<>> => resp[1].tag # "cached:true"
         /\ pc = "done" => calls.github = 1
         /\ (pc = "done" /\ resp[1].status = 200) =>
              LET old == findOne(pre.repo, [repoUrl |-> RequestKey])
                  new == findOne(RepositoryAnalysis, [repoUrl |-> RequestKey])
              IN /\ calls.llm = 2 /\ calls.repoWrites = 1
                 /\ resp[1].tag = "cached:false" /\ new # <<>> /\ resp[1].data = new
                 /\ old # <<>> => /\ new[1].analyzedAt > old[1].analyzedAt
                                  /\ Len(RepositoryAnalysis) = Len(pre.repo)
    /\ (ValidGet /\ req.force) =>
         /\ calls.routeReads = 0
         /\ resp # <<>> => resp[1].tag # "fromCache:true"
         /\ (pc = "done" /\ CacheHit(findOne(pre.route, RouteKey))) => calls.llm >= 1
         /\ (pc = "done" /\ resp[1].status = 200) =>
              LET old == findOne(pre.route, RouteKey)
                  new == findOne(RouteCache, RouteKey)
              IN /\ calls.llm >= 2 /\ calls.routeWrites = 1
                 /\ resp[1].tag = "fromCache:false" /\ new # <<>>
                 /\ resp[1].data = <<[flowVisualization |-> new[1].flowVisualization,
                                      executionTrace |-> new[1].executionTrace]>>
                 /\ old # <<>> => /\ new[1].cachedAt > old[1].cachedAt
                                  /\ Len(RouteCache) = Len(pre.route)

\* C24 witness: a route request with forceReload=true for a key with a
\* complete stored record was answered 200 with a newly written record
C24_Witness ==
    /\ pc = "done" /\ ValidGet /\ req.force
    /\ CacheHit(findOne(pre.route, RouteKey))
    /\ resp # <<>> /\ resp[1].status = 200 /\ resp[1].tag = "fromCache:false"
    /\ findOne(RouteCache, RouteKey) # findOne(pre.route, RouteKey)

Called(op) == ord.st[op] # "idle"

Failed == pc = "done" /\ resp # <<>> /\ resp[1].status >= 400

\* C26: a request answered with a failure status (400, 401, 402, 404, 429
\* or 500) has written to neither store: both collections are what they
\* were when the request arrived, so the record a forced request was to
\* replace is still the stored one.
C26_FailureWritesNothing ==
    Failed =>
        /\ calls.repoWrites = 0 /\ calls.routeWrites = 0
        /\ RepositoryAnalysis = pre.repo /\ RouteCache = pre.route

\* C26 witness: a forced refresh of a stored repository failed after the
\* evidence assembly, in an LLM pass, and the record is still there
C26_Witness ==
    /\ Failed /\ ValidPost /\ req.force
    /\ calls.llm = 2 /\ resp[1].status = 500
    /\ findOne(pre.repo, [repoUrl |-> RequestKey]) # <<>>
    /\ findOne(RepositoryAnalysis, [repoUrl |-> RequestKey])
         = findOne(pre.repo, [repoUrl |-> RequestKey])

\* a route request is being served
Serving == req.handler = "GET" /\ pc # "done"

\* C27: a route request that is being served is eventually answered, and
\* it has an answer exactly when it is done; at every point it has made at
\* most four LLM calls, at most two of them before relevance identification
\* returned and at most two attempts per wrapped call, and at most one
\* route-cache write; the file fetch and with it the execution-trace call
\* are reached only by relevance identification returning.
C27_RouteRequestTerminates ==
    /\ [](req.handler = "GET" =>
            /\ calls.llm <= 4 /\ rl.attempts <= 2 /\ calls.routeWrites <= 1
            /\ pc \in {"g_cache", "g_repo", "g_A1"} => calls.llm = 0
            /\ pc \in {"g_A2"} => calls.llm = 1
            /\ pc \in {"g_fetch", "g_D1"} => calls.llm \in 1..2
            /\ (\E c \in {"groq1", "groq2", "groqMain"} : <<"trace", c>> \in calls.clients)
                 => pc \in {"g_D2", "g_save", "done"}
            /\ resp # <<>> <=> pc = "done")
    /\ [][/\ (pc' = "g_fetch" /\ pc # "g_fetch")
              => pc \in {"g_A1", "g_A2"} /\ rl'.state = "returned"
          /\ (pc' = "g_D1" /\ pc # "g_D1") => pc = "g_fetch"
          /\ (pc' = "g_D2" /\ pc # "g_D2") => pc = "g_D1"]_vars
    /\ (Serving ~> pc = "done")

\* C27 witness: relevance identification and execution-trace synthesis
\* were both throttled once and retried, four LLM calls in all, and the
\* request was answered 200 after one route-cache write
C27_Witness ==
    /\ pc = "done" /\ req.handler = "GET"
    /\ calls.llm = 4 /\ calls.routeWrites = 1
    /\ resp # <<>> /\ resp[1].status = 200

\* a source-host call behind the current request failed with the status
SourceHostFailed(status) ==
    /\ loc.fetch # <<>>
    /\ \E k \in DOMAIN Fetched : ~Fetched[k].ok /\ Fetched[k].err.status = status

\* C28: a POST /api/analyze request is answered 404 only if a source-host
\* call failed with 404, and 429 only if one failed with 403; a request one
\* of whose completions failed, whatever the status of the provider's
\* error, is answered 500.
C28_OnlySourceHostClassified ==
    (pc = "done" /\ req.handler = "POST" /\ resp # <<>>) =>
        /\ resp[1].status = 404 => SourceHostFailed(404)
        /\ resp[1].status = 429 => SourceHostFailed(403)
        /\ (loc.answers # <<>> /\ ~BothAnswered) => resp[1].status = 500

\* C29: when a fetch of the route-analysis page has ended, the page is in
\* the subscription-gate state only if the answer was status 402; after
\* an answer of status 500 or 400 and after a network error it is not in
\* the gate state and has an error message.
C29_GateOnlyOn402 ==
    (page.pc = "settled" /\ page.last # <<>>) =>
        LET o == page.last[1]
        IN /\ page.rateLimitExceeded => (o.kind = "json" /\ o.status = 402)
           /\ (o.kind = "network" \/ (o.kind = "json" /\ o.status \in {400, 500}))
                => ~page.rateLimitExceeded /\ page.error # <<>>

\* the attempts in flight
InFlight(d) == {a \in 1..Len(d.attempts) : d.attempts[a] = "pending"}
Succeeded(d) == \E a \in 1..Len(d.attempts) : d.attempts[a] = "resolved"
Awaiting(d) == {c \in Callers : d.callers[c].pc = "awaiting"}

\* C30: at most one connection attempt is in flight; the callers suspended
\* while an attempt is in flight all await that attempt, and a call made
\* meanwhile starts none; once an attempt has succeeded no attempt is
\* started and no call is suspended any more, and every call made after the
\* connection is kept returns at once; once the continuations of a failed
\* attempt have run, cached.promise is null, and the next call starts a new
\* attempt.
C30_OneAttemptInFlight ==
    /\ [](/\ Cardinality(InFlight(db)) <= 1
          /\ \A a \in InFlight(db) :
                /\ db.promise = a
                /\ \A c \in Awaiting(db) : db.callers[c].on = a
          /\ db.micro = <<>> =>
                (db.promise # 0 => db.attempts[db.promise] # "rejected"))
    /\ [][/\ (InFlight(db) # {} \/ Succeeded(db))
              => Len(db'.attempts) = Len(db.attempts)
          /\ \A c \in Callers :
                (db.callers[c].pc # "awaiting" /\ db'.callers[c].pc = "awaiting")
                => /\ ~Succeeded(db)
                   /\ InFlight(db) = {} =>
                        /\ Len(db'.attempts) = Len(db.attempts) + 1
                        /\ db'.callers[c].on = Len(db'.attempts)
          /\ \A c \in Callers :
                (db.conn # 0 /\ db'.callers[c] # db.callers[c])
                => db'.callers[c].pc = "returned"]_vars

\* C30 witness: the first attempt failed with two callers awaiting it, both
\* got the failure, and the two callers that came next share a second
\* attempt that is in flight
C30_Witness ==
    /\ Len(db.attempts) = 2
    /\ db.attempts[1] = "rejected" /\ db.attempts[2] = "pending"
    /\ db.promise = 2
    /\ Cardinality({c \in Callers : db.callers[c].on = 2}) = 2
    /\ \E c \in Callers : db.callers[c].pc = "threw"

====
